---------------------------- MODULE Spec2Model ----------------------------
(***************************************************************************)
(* A model of the raspijpgs server (src/src/raspijpgs.c): option storage   *)
(* and application, the client registry, JPEG reassembly from encoder      *)
(* chunks, distribution to clients and to the local output, and the        *)
(* server's event loop.                                                    *)
(*                                                                         *)
(* The C functions are operators over a machine record                     *)
(*    m = [state, env, camera, io, exit]                                   *)
(* where state mirrors struct raspijpgs_state, env is the process          *)
(* environment (setenv/getenv), camera holds the parameters last set on    *)
(* the MMAL components, io lists the externally visible effects of the     *)
(* handler being run and exit is the process exit status.  An operator     *)
(* returns the machine after the function has run; a process that has      *)
(* exited runs nothing more.                                               *)
(***************************************************************************)
EXTENDS Integers, Sequences, FiniteSets, TLC

VARIABLES
    state,        \* struct raspijpgs_state
    env,          \* the process environment
    camera,       \* parameters applied to the camera and the encoder
    io,           \* effects of the last handler run (sends, writes, warnings)
    exit_status,  \* "running", or how the process exited
    pc,           \* where the process is: "main", "poll", "mmal", "client", "done"
    revents,      \* descriptors poll() reported ready and not yet serviced
    ev,           \* the input of the last handler run
    episode,      \* bookkeeping on the chunks since the last frame end
    hist,         \* bookkeeping on the run since the process started
    beam,         \* the Elixir side: the camera GenServers, their callers, the port
    live,         \* the stdin-controlled port program (picam_camera.c)
    mmal          \* the buffers of the encoder's output pool (raspijpgs.c)

rvars == <<state, env, camera, io, exit_status, pc, revents, ev, episode, hist>>

cvars == <<rvars, live, mmal>>

vars == <<state, env, camera, io, exit_status, pc, revents, ev, episode, hist, beam, live, mmal>>

-----------------------------------------------------------------------------
(* Sizes.  The source sets MAX_CLIENTS to 8 and MAX_DATA_BUFFER_SIZE to    *)
(* 131072 (src/src/raspijpgs.c:75-76); the model keeps the names and       *)
(* scales the values.                                                      *)
MAX_CLIENTS == 3
MAX_DATA_BUFFER_SIZE == 3

\* The size of stdin_buffer: 4096 in the source (src/src/raspijpgs.c:77),
\* scaled to hold the longest request of the model and a few bytes more.
MAX_REQUEST_BUFFER_SIZE == 24

\* Longest encoder chunk: one byte more than the buffer holds.
MaxChunkLen == MAX_DATA_BUFFER_SIZE + 1

\* Byte values of JPEG data.
Bytes == {"a", "b"}
\* A byte of a received datagram, and the terminator written after it.
DGRAM_BYTE == "d"
NUL == "\\0"

\* Client addresses (sockaddr_un with sun_family = AF_UNIX); one more than
\* the registry holds.  NO_ADDR is a slot whose sun_family is 0.
NO_ADDR == "-"
AddrOf == <<"c1", "c2", "c3", "c4", "c5", "c6", "c7", "c8", "c9">>
Clients == {AddrOf[i] : i \in 1..(MAX_CLIENTS + 1)}

\* A null char pointer (an unset environment variable, a missing default).
NULL == "<null>"

Min(a, b) == IF a < b THEN a ELSE b

-----------------------------------------------------------------------------
(* enum config_context *)
config_context_parse_cmdline == "cmdline"
config_context_file == "file"
config_context_server_start == "server_start"
config_context_client_request == "client_request"

(* The numerals the model uses as option values, with the value strtol and *)
(* strtoul read from them.  Any other string reads as 0.                   *)
Numeral == [n \in {"-100", "-50", "-1", "0", "1", "2", "15", "50", "100", "150"} |->
               CASE n = "-100" -> -100 [] n = "-50" -> -50
                 [] n = "-1" -> -1 [] n = "0" -> 0 [] n = "1" -> 1 [] n = "2" -> 2
                 [] n = "15" -> 15 [] n = "50" -> 50 [] n = "100" -> 100
                 [] n = "150" -> 150]

strtol(s) == IF s \in DOMAIN Numeral THEN Numeral[s] ELSE 0

(* An unsigned 32-bit value is held as its two 16-bit halves [hi, lo].     *)
HALF_WORD == 65536

\* strtoul negates in unsigned arithmetic; the callers keep 32 bits of it.
strtoul(s) ==
    LET n == strtol(s)
    IN [hi |-> (n \div HALF_WORD) % HALF_WORD, lo |-> n % HALF_WORD]

\* u > k for a k below 2^16.
UGreater(u, k) == u.hi > 0 \/ u.lo > k

\* Conversion of an unsigned 32-bit value to int.
ToInt(u) ==
    IF u.hi >= HALF_WORD \div 2 THEN (u.hi - HALF_WORD) * HALF_WORD + u.lo
    ELSE u.hi * HALF_WORD + u.lo

constrain(minimum, value, maximum) ==
    IF value < minimum THEN minimum
    ELSE IF value > maximum THEN maximum
    ELSE value

-----------------------------------------------------------------------------
(* Environment keys and the option table.  The model keeps the rows of     *)
(* opts[] that differ in how they are stored, checked or applied: a        *)
(* parameter whose applier is empty and whose short alias is "h" (height), *)
(* the help option, whose short alias is "h" too, a                        *)
(* rational parameter (sharpness), a parameter whose applier is a stub     *)
(* (ev), an enumeration (exposure), a clamped number (quality), the output *)
(* name, the frame count, and the two options with a setter of their own   *)
(* (config, framing).  no_env is env_key = 0, no_apply is apply = 0,       *)
(* no_short is short_option = 0.                                           *)
RASPIJPGS_HEIGHT == "RASPIJPGS_HEIGHT"
RASPIJPGS_SHARPNESS == "RASPIJPGS_SHARPNESS"
RASPIJPGS_EV == "RASPIJPGS_EV"
RASPIJPGS_EXPOSURE == "RASPIJPGS_EXPOSURE"
RASPIJPGS_QUALITY == "RASPIJPGS_QUALITY"
RASPIJPGS_OUTPUT == "RASPIJPGS_OUTPUT"
RASPIJPGS_COUNT == "RASPIJPGS_COUNT"

EnvKeys == {RASPIJPGS_HEIGHT, RASPIJPGS_SHARPNESS, RASPIJPGS_EV, RASPIJPGS_EXPOSURE, RASPIJPGS_QUALITY,
            RASPIJPGS_OUTPUT, RASPIJPGS_COUNT}

no_env == ""
no_apply == ""
no_short == ""

opts == <<
    [long_option |-> "height", short_option |-> "h", env_key |-> RASPIJPGS_HEIGHT,
     default_value |-> "0", set |-> "default_set", apply |-> "height_apply"],
    [long_option |-> "sharpness", short_option |-> "sh", env_key |-> RASPIJPGS_SHARPNESS, default_value |-> "0",
     set |-> "default_set", apply |-> "sharpness_apply"],
    [long_option |-> "ev", short_option |-> "ev", env_key |-> RASPIJPGS_EV, default_value |-> "0",
     set |-> "default_set", apply |-> "ev_apply"],
    [long_option |-> "exposure", short_option |-> "ex", env_key |-> RASPIJPGS_EXPOSURE, default_value |-> "auto",
     set |-> "default_set", apply |-> "exposure_apply"],
    [long_option |-> "quality", short_option |-> "q", env_key |-> RASPIJPGS_QUALITY, default_value |-> "15",
     set |-> "default_set", apply |-> "quality_apply"],
    [long_option |-> "output", short_option |-> "o", env_key |-> RASPIJPGS_OUTPUT, default_value |-> "",
     set |-> "default_set", apply |-> no_apply],
    [long_option |-> "count", short_option |-> no_short, env_key |-> RASPIJPGS_COUNT, default_value |-> "-1",
     set |-> "default_set", apply |-> "count_apply"],
    [long_option |-> "config", short_option |-> "c", env_key |-> no_env, default_value |-> NULL,
     set |-> "config_set", apply |-> no_apply],
    [long_option |-> "framing", short_option |-> "fr", env_key |-> no_env, default_value |-> "cat",
     set |-> "framing_set", apply |-> no_apply],
    [long_option |-> "help", short_option |-> "h", env_key |-> no_env, default_value |-> NULL,
     set |-> "help", apply |-> no_apply] >>

LongOptions == {opts[i].long_option : i \in DOMAIN opts}

\* The row of the table whose long_option is key (the lookup loops of
\* parse_args and parse_config_line).
OptNamed(key) == opts[CHOOSE i \in DOMAIN opts : opts[i].long_option = key]

ExposureModes == {"off", "auto", "night", "nightpreview", "backlight", "spotlight",
                  "sports", "snow", "beach", "verylong", "fixedfps", "antishake",
                  "fireworks"}

FramingModes == {"cat", "mime", "http", "header", "replace"}

-----------------------------------------------------------------------------
(* Process exit: err(), errx() and exit().                                 *)
EXIT_FAILURE == "EXIT_FAILURE"
EXIT_SUCCESS == "EXIT_SUCCESS"
RUNNING == "running"

Exit(m, status) == [m EXCEPT !.exit = status]

Warn(m, msg) == [m EXCEPT !.io.warnx = Append(@, msg)]

\* setenv(key, value, replace)
setenv(m, key, value, replace) ==
    IF replace \/ m.env[key] = NULL THEN [m EXCEPT !.env[key] = value] ELSE m

-----------------------------------------------------------------------------
(* The setters.                                                            *)
\* default_set that replaces whatever the context.
default_set_replacing(m, opt, value, context) ==
    IF opt.env_key = no_env THEN m
    ELSE IF value # NULL THEN setenv(m, opt.env_key, value, TRUE)
    ELSE [m EXCEPT !.env[opt.env_key] = NULL]

default_set(m, opt, value, context) ==
    IF opt.env_key = no_env THEN m
    ELSE LET replace == (context # config_context_file)
         IN IF value # NULL THEN setenv(m, opt.env_key, value, replace)
            ELSE IF replace THEN [m EXCEPT !.env[opt.env_key] = NULL]
            ELSE m

config_set(m, opt, value, context) == [m EXCEPT !.state.config_filename = value]

framing_set(m, opt, value, context) == [m EXCEPT !.state.framing = value]

\* help prints the options and exits, except for a client.
help(m, opt, value, context) ==
    IF context = config_context_client_request THEN m
    ELSE Exit([m EXCEPT !.io.help = TRUE], EXIT_FAILURE)

Set(m, opt, value, context) ==
    CASE opt.set = "default_set" -> default_set(m, opt, value, context)
      [] opt.set = "help" -> help(m, opt, value, context)
      [] opt.set = "config_set" -> config_set(m, opt, value, context)
      [] opt.set = "framing_set" -> framing_set(m, opt, value, context)

-----------------------------------------------------------------------------
(* The appliers.  A parameter set on an MMAL port is recorded in camera;   *)
(* the port calls themselves are taken to succeed.                         *)
rational_param_apply(m, param, opt, context) ==
    LET value == strtoul(m.env[opt.env_key])
    IN IF UGreater(value, 100)
       THEN IF context = config_context_server_start THEN Exit(m, EXIT_FAILURE) ELSE m
       ELSE [m EXCEPT !.camera[param] = value.lo]

sharpness_apply(m, opt, context) == rational_param_apply(m, "sharpness", opt, context)

\* ev_apply is a stub ("TODO"): the value is read by nothing.
ev_apply(m, opt, context) == m

exposure_apply(m, opt, context) ==
    LET str == m.env[opt.env_key]
    IN IF str \in ExposureModes THEN [m EXCEPT !.camera.exposure = str]
       ELSE IF context = config_context_server_start THEN Exit(m, EXIT_FAILURE)
       ELSE m

quality_apply(m, opt, context) ==
    LET value == ToInt(strtoul(m.env[opt.env_key]))
    IN [m EXCEPT !.camera.quality = constrain(0, value, 100)]

count_apply(m, opt, context) == [m EXCEPT !.state.count = strtol(m.env[opt.env_key])]

\* height_apply has an empty body.
height_apply(m, opt, context) == m

Apply(m, opt, context) ==
    CASE opt.apply = "sharpness_apply" -> sharpness_apply(m, opt, context)
      [] opt.apply = "height_apply" -> height_apply(m, opt, context)
      [] opt.apply = "ev_apply" -> ev_apply(m, opt, context)
      [] opt.apply = "exposure_apply" -> exposure_apply(m, opt, context)
      [] opt.apply = "quality_apply" -> quality_apply(m, opt, context)
      [] opt.apply = "count_apply" -> count_apply(m, opt, context)
      [] opt.apply = no_apply -> m

RECURSIVE apply_from(_, _, _)
\* The loop of apply_parameters from row i on.
apply_from(m, i, context) ==
    IF i > Len(opts) \/ m.exit # RUNNING THEN m
    ELSE apply_from(Apply(m, opts[i], context), i + 1, context)

apply_parameters(m, context) == apply_from(m, 1, context)

RECURSIVE fillin_from(_, _)
fillin_from(m, i) ==
    IF i > Len(opts) THEN m
    ELSE LET opt == opts[i]
         IN fillin_from(IF opt.env_key # no_env /\ opt.default_value # NULL
                        THEN setenv(m, opt.env_key, opt.default_value, FALSE)
                        ELSE m,
                        i + 1)

fillin_defaults(m) ==
    LET m1 == fillin_from(m, 1)
    IN IF m1.state.framing = NULL THEN [m1 EXCEPT !.state.framing = "cat"] ELSE m1

-----------------------------------------------------------------------------
(* Command line and config lines.  An argument or a line is given as the   *)
(* key and the value it splits into; a line that is empty after trimming   *)
(* has the key "".                                                         *)
EMPTY_LINE == [key |-> "", value |-> "on"]

RECURSIVE parse_args_from(_, _, _)
parse_args_from(m, argv, i) ==
    IF i > Len(argv) \/ m.exit # RUNNING THEN m
    ELSE IF argv[i].key \notin LongOptions
         THEN help(Warn(m, "Unknown option"), NULL, NULL, config_context_parse_cmdline)
         ELSE parse_args_from(Set(m, OptNamed(argv[i].key), argv[i].value,
                                  config_context_parse_cmdline),
                              argv, i + 1)

parse_args(m, argv) == parse_args_from(m, argv, 1)

\* The words of a command line, and what parse_args sees in each: the
\* dashes it begins with, the key after them, and whether it holds an '='.
ArgText ==
    [t \in {"--ev", "-ev", "--height", "-h", "--help", "--quality=50", "--nosuchoption",
            "-x", "5", "-5"} |->
        CASE t = "--ev" -> [dashes |-> 2, key |-> "ev", eq |-> FALSE]
          [] t = "-ev" -> [dashes |-> 1, key |-> "ev", eq |-> FALSE]
          [] t = "--height" -> [dashes |-> 2, key |-> "height", eq |-> FALSE]
          [] t = "-h" -> [dashes |-> 1, key |-> "h", eq |-> FALSE]
          [] t = "--help" -> [dashes |-> 2, key |-> "help", eq |-> FALSE]
          [] t = "--quality=50" -> [dashes |-> 2, key |-> "quality", eq |-> TRUE]
          [] t = "--nosuchoption" -> [dashes |-> 2, key |-> "nosuchoption", eq |-> FALSE]
          [] t = "-x" -> [dashes |-> 1, key |-> "x", eq |-> FALSE]
          [] t = "5" -> [dashes |-> 0, key |-> "", eq |-> FALSE]
          [] t = "-5" -> [dashes |-> 1, key |-> "5", eq |-> FALSE]]

is_long_option(str) == ArgText[str].dashes = 2

is_short_option(str) == ArgText[str].dashes = 1

\* The lookup loop of parse_args over the short aliases: the first row
\* whose short_option is key, or 0.
ShortRow(key) ==
    IF \E i \in DOMAIN opts : opts[i].short_option = key
    THEN CHOOSE i \in DOMAIN opts :
             /\ opts[i].short_option = key
             /\ \A j \in 1..(i - 1) : opts[j].short_option # key
    ELSE 0

\* An argument that parse_args answers with help(): its key is no option.
BAD_ARG == [key |-> "?", value |-> "on"]

RECURSIVE scan_args(_, _)
\* The loop of parse_args over the words of argv from word i on: the key
\* and the value of each option, in order, up to the first word that it
\* answers with help().  In `--key=value` the value is the pointer to the
\* '=' after a NUL was written there: the empty string.
scan_args(words, i) ==
    IF i > Len(words) THEN <<>>
    ELSE LET t == ArgText[words[i]]
             more == i < Len(words)
         IN IF is_long_option(words[i])
            THEN IF t.key \notin LongOptions THEN <<BAD_ARG>>
                 ELSE IF t.eq
                      THEN <<[key |-> t.key, value |-> ""]>> \o scan_args(words, i + 1)
                 ELSE IF more /\ ~is_long_option(words[i + 1])
                              /\ ~is_short_option(words[i + 1])
                      THEN <<[key |-> t.key, value |-> words[i + 1]]>>
                           \o scan_args(words, i + 2)
                 ELSE <<[key |-> t.key, value |-> "on"]>> \o scan_args(words, i + 1)
            ELSE IF is_short_option(words[i])
            THEN IF ShortRow(t.key) = 0 THEN <<BAD_ARG>>
                 ELSE LET key == opts[ShortRow(t.key)].long_option
                      IN IF more
                         THEN <<[key |-> key, value |-> words[i + 1]]>>
                              \o scan_args(words, i + 2)
                         ELSE <<[key |-> key, value |-> "on"]>>
            ELSE <<BAD_ARG>>

\* parse_config_line without the test of the context at an unknown key.
parse_config_line_strict(m, line, context) ==
    IF m.exit # RUNNING \/ line.key = "" THEN m
    ELSE IF line.key \notin LongOptions THEN Exit(m, EXIT_FAILURE)
         ELSE LET opt == OptNamed(line.key)
              IN CASE context = config_context_file -> Set(m, opt, line.value, context)
                   [] context = config_context_client_request ->
                          Apply(Set(m, opt, line.value, context), opt, context)
                   [] OTHER -> m

parse_config_line(m, line, context) ==
    IF m.exit # RUNNING \/ line.key = "" THEN m
    ELSE IF line.key \notin LongOptions
         THEN IF context = config_context_file THEN Exit(m, EXIT_FAILURE) ELSE m
         ELSE LET opt == OptNamed(line.key)
              IN CASE context = config_context_file -> Set(m, opt, line.value, context)
                   [] context = config_context_client_request ->
                          Apply(Set(m, opt, line.value, context), opt, context)
                   [] OTHER -> m

RECURSIVE parse_lines_from(_, _, _, _)
parse_lines_from(m, lines, i, context) ==
    IF i > Len(lines) THEN m
    ELSE parse_lines_from(parse_config_line(m, lines[i], context), lines, i + 1, context)

\* The file is the sequence of its lines; it is read when --config named one.
load_config_file(m, file) ==
    IF m.state.config_filename = NULL THEN m
    ELSE parse_lines_from(m, file, 1, config_context_file)

\* The lines of a datagram or a packet, each parsed as a client request.
parse_config_lines(m, lines) ==
    parse_lines_from(m, lines, 1, config_context_client_request)

-----------------------------------------------------------------------------
(* The client registry and the distribution of a JPEG.                     *)

\* The first slot whose sun_family is 0, or 0 when there is none.
FirstFreeSlot(client_addrs) ==
    IF \E i \in 1..MAX_CLIENTS : client_addrs[i] = NO_ADDR
    THEN CHOOSE i \in 1..MAX_CLIENTS :
             /\ client_addrs[i] = NO_ADDR
             /\ \A j \in 1..(i - 1) : client_addrs[j] # NO_ADDR
    ELSE 0

\* add_client that gives the last slot to the newcomer when none is free.
add_client_displacing(m, client_addr) ==
    LET i == FirstFreeSlot(m.state.client_addrs)
    IN [m EXCEPT !.state.client_addrs[IF i # 0 THEN i ELSE MAX_CLIENTS] = client_addr]

add_client(m, client_addr) ==
    LET i == FirstFreeSlot(m.state.client_addrs)
    IN IF i # 0 THEN [m EXCEPT !.state.client_addrs[i] = client_addr]
       ELSE Warn(m, "Reached max number of clients")

\* The handler of SIGINT and SIGTERM.
term_sighandler(m) == [m EXCEPT !.state.count = 0]

\* What a write of a frame to the output does: all of it, part of it, or an
\* error.
WRITE_OK == "ok"
WRITE_SHORT == "short"
WRITE_ERROR == "error"

\* The value of a symbol read as a byte: a length byte "<n>" is n, a
\* character or a line is the code of its first character.
ByteVal(c) ==
    CASE c = "<0>" -> 0 [] c = "<1>" -> 1 [] c = "<2>" -> 2 [] c = "<3>" -> 3
      [] c = "<4>" -> 4 [] c = "<5>" -> 5 [] c = "\n" -> 10 [] c = "\r" -> 13
      [] c = "<30>" -> 30 [] c = " " -> 32
      [] c = "quality=50" -> 113 [] c = "quality=150" -> 113
      [] c = "exposure=snow" -> 101 [] c = "nosuchoption=1" -> 110
      [] c = "framing=mime" -> 102 [] c = "framing=bogus" -> 102
      [] OTHER -> 63

\* The byte of value n, for the values a length byte takes in the model.
ByteOf(n) == CHOOSE c \in {"<0>", "<1>", "<2>", "<3>", "<4>", "<5>"} : ByteVal(c) = n

OCTET == 256

\* Byte k of n, byte 0 the lowest.
Octet(n, k) == (n \div (OCTET ^ k)) % OCTET

\* The four bytes of a uint32_t in memory as the model's host keeps them
\* (little-endian, as on the ARM targets), lowest byte first.
HostBytes(n) == [k \in 1..4 |-> ByteOf(Octet(n, k - 1))]

\* htonl on that host: the bytes swapped end for end.
htonl(n) ==
    (Octet(n, 0) * (OCTET ^ 3)) + (Octet(n, 1) * (OCTET ^ 2)) + (Octet(n, 2) * OCTET)
    + Octet(n, 3)

\* The header branch's iovs with the length as the host keeps it.
header_iovs_host_order(buf) == HostBytes(Len(buf)) \o buf

\* iovs of the header branch: len32 = htonl(len) as it lies in memory, then
\* the frame.
header_iovs(buf) == HostBytes(htonl(Len(buf))) \o buf

\* iovs of the multipart branch: the part header with its Content-Length,
\* the frame and the boundary.
multipart_iovs(buf) ==
    <<"Content-Type: image/jpeg", "Content-Length:", ByteOf(Len(buf))>> \o buf
    \o <<"mime_boundary">>

\* A write of buf in the given framing, as output_jpeg issues it; a write
\* to the descriptor -1 fails.  bytes is what reaches the output: all the
\* bytes of the iovs, or all but the last when the write falls short.
Written(m, mode, buf, wr) ==
    IF wr = WRITE_ERROR \/ m.state.output_fd = "none" THEN Exit(m, EXIT_FAILURE)
    ELSE LET iovs == IF mode = "header" THEN header_iovs(buf)
                     ELSE IF mode = "multipart" THEN multipart_iovs(buf)
                     ELSE buf
             count == IF wr = WRITE_OK THEN Len(iovs) ELSE Len(iovs) - 1
             m1 == [m EXCEPT !.io.writes =
                        Append(@, [mode |-> mode, frame |-> buf, complete |-> (wr = WRITE_OK)]),
                             !.io.bytes = @ \o SubSeq(iovs, 1, count)]
         IN IF wr = WRITE_SHORT THEN Warn(m1, "Unexpected truncation of JPEG") ELSE m1

\* output_jpeg that writes the parts in http framing whether or not the
\* request has come.
\* The calls on the file system that output_jpeg makes in replace framing,
\* in order: open, write and close of a path, with the bytes written, and
\* rename of a path to the path `to`.
FsOp(op, path, data) == [op |-> op, path |-> path, data |-> data, to |-> path]

Rename(path, to) == [op |-> "rename", path |-> path, data |-> <<>>, to |-> to]

\* asprintf(&state.output_tmp_filename, "%s.tmp", state.output_filename)
TmpOf(name) == name \o ".tmp"

\* The replace branch writing straight to the published path.
replace_output_in_place(m, buf, wr) ==
    LET out == m.state.output_filename
        opened == [m EXCEPT !.io.fsops = Append(@, FsOp("open", out, <<>>))]
    IN IF wr = WRITE_ERROR THEN Exit(opened, EXIT_FAILURE)
       ELSE [opened EXCEPT
                !.io.fsops = @ \o <<FsOp("write", out, buf), FsOp("close", out, <<>>)>>,
                !.io.writes = Append(@, [mode |-> "replace", frame |-> buf, complete |-> TRUE])]

\* The replace branch of output_jpeg: open the temporary file, write, close,
\* rename.  open() of a NULL name fails; a short write leaves out the last
\* byte; close() and rename() are taken to succeed.
replace_output(m, buf, wr) ==
    LET tmp == m.state.output_tmp_filename
        opened == [m EXCEPT !.io.fsops = Append(@, FsOp("open", tmp, <<>>))]
        data == IF wr = WRITE_OK THEN buf ELSE SubSeq(buf, 1, Len(buf) - 1)
        done == [opened EXCEPT
                    !.io.fsops = @ \o <<FsOp("write", tmp, data), FsOp("close", tmp, <<>>),
                                        Rename(tmp, m.state.output_filename)>>,
                    !.io.writes = Append(@, [mode |-> "replace", frame |-> buf,
                                             complete |-> (wr = WRITE_OK)])]
    IN IF tmp = NULL THEN Exit(m, EXIT_FAILURE)
       ELSE IF wr = WRITE_ERROR THEN Exit(opened, EXIT_FAILURE)
       ELSE IF wr = WRITE_SHORT THEN Warn(done, "Unexpected truncation of JPEG")
       ELSE done

output_jpeg_ungated(m, buf, wr) ==
    IF m.state.no_output THEN m
    ELSE IF m.state.framing \in {"mime", "http"} THEN Written(m, "multipart", buf, wr)
    ELSE IF m.state.framing = "replace" THEN replace_output(m, buf, wr)
    ELSE IF m.state.framing \in {"header", "cat"} THEN Written(m, m.state.framing, buf, wr)
    ELSE m

output_jpeg(m, buf, wr) ==
    LET framing == m.state.framing
    IN IF m.state.no_output THEN m
       ELSE IF framing = "mime" \/ (m.state.http_ready_for_images /\ framing = "http")
            THEN Written(m, "multipart", buf, wr)
       ELSE IF framing = "header" THEN Written(m, "header", buf, wr)
       ELSE IF framing = "replace" THEN replace_output(m, buf, wr)
       ELSE IF framing = "cat" THEN Written(m, "cat", buf, wr)
       ELSE m

RECURSIVE distribute_from(_, _, _, _)
\* The loop of distribute_jpeg from slot i on; the sends to the slots in
\* failing return an error.
distribute_from(m, i, buf, failing) ==
    IF i > MAX_CLIENTS THEN m
    ELSE LET addr == m.state.client_addrs[i]
         IN IF addr = NO_ADDR THEN distribute_from(m, i + 1, buf, failing)
            ELSE LET sent == [m EXCEPT !.io.sends =
                                  Append(@, [slot |-> i, addr |-> addr, buf |-> buf,
                                             ok |-> (i \notin failing)])]
                 IN distribute_from(IF i \in failing
                                    THEN [sent EXCEPT !.state.client_addrs[i] = NO_ADDR]
                                    ELSE sent,
                                    i + 1, buf, failing)

\* distribute_jpeg that returns, before the output, when a send has failed.
distribute_jpeg_returning(m, buf, failing, wr) ==
    LET m0 == [m EXCEPT !.io.frames = Append(@, buf)]
        sent == distribute_from(m0, 1, buf, failing)
    IN IF \E k \in DOMAIN sent.io.sends : ~sent.io.sends[k].ok THEN sent
       ELSE output_jpeg(sent, buf, wr)

\* distribute_jpeg that writes the output and leaves the clients for later.
distribute_jpeg_sink_only(m, buf, failing, wr) ==
    output_jpeg([m EXCEPT !.io.frames = Append(@, buf)], buf, wr)

distribute_jpeg(m, buf, failing, wr) ==
    LET m0 == [m EXCEPT !.io.frames = Append(@, buf)]
    IN output_jpeg(distribute_from(m0, 1, buf, failing), buf, wr)

-----------------------------------------------------------------------------
(* Reassembly of a JPEG from the encoder's buffers.  A chunk is            *)
(* [data, frame_end]: the bytes of an MMAL buffer and whether its flags    *)
(* hold MMAL_BUFFER_HEADER_FLAG_FRAME_END.  socket_buffer is indexed from  *)
(* 1, so the C offset socket_buffer_ix is the count of bytes before it.    *)

\* memcpy to the start of the buffer, whatever the offset.
memcpy_at_start(buf, ix, data) ==
    [i \in 1..Len(buf) |-> IF i <= Len(data) THEN data[i] ELSE buf[i]]

\* memcpy(&buf[ix], data, Len(data))
memcpy(buf, ix, data) ==
    [i \in 1..Len(buf) |-> IF ix < i /\ i <= ix + Len(data) THEN data[i - ix] ELSE buf[i]]

\* A callback that takes a chunk as long as it starts inside the buffer.
jpegencoder_buffer_callback_impl_late(m, chunk, failing, wr) ==
    LET ix == m.state.socket_buffer_ix
        length == Len(chunk.data)
        handled ==
            IF ix = 0 /\ chunk.frame_end /\ length <= MAX_DATA_BUFFER_SIZE
            THEN distribute_jpeg(m, chunk.data, failing, wr)
            ELSE IF ix >= MAX_DATA_BUFFER_SIZE
                 THEN [m EXCEPT !.state.socket_buffer_ix =
                                    IF chunk.frame_end THEN 0 ELSE @]
                 ELSE LET copied == [m EXCEPT
                              !.state.socket_buffer = memcpy(@, ix, chunk.data),
                              !.state.socket_buffer_ix = ix + length,
                              !.io.copies = Append(@, [ix |-> ix, length |-> length])]
                      IN IF chunk.frame_end
                         THEN [distribute_jpeg(copied,
                                   SubSeq(copied.state.socket_buffer, 1,
                                          Min(ix + length, MAX_DATA_BUFFER_SIZE)),
                                   failing, wr)
                               EXCEPT !.state.socket_buffer_ix = 0]
                         ELSE copied
    IN IF handled.exit # RUNNING THEN handled
       ELSE IF handled.state.count >= 0
            THEN [handled EXCEPT !.state.count = @ - 1]
            ELSE handled

jpegencoder_buffer_callback_impl(m, chunk, failing, wr) ==
    LET ix == m.state.socket_buffer_ix
        length == Len(chunk.data)
        handled ==
            IF ix = 0 /\ chunk.frame_end /\ length <= MAX_DATA_BUFFER_SIZE
            THEN distribute_jpeg(m, chunk.data, failing, wr)
            ELSE IF ix + length > MAX_DATA_BUFFER_SIZE
                 THEN IF chunk.frame_end
                      THEN [m EXCEPT !.state.socket_buffer_ix = 0]
                      ELSE IF ix # MAX_DATA_BUFFER_SIZE
                           THEN [Warn(m, "Frame too large") EXCEPT
                                     !.state.socket_buffer_ix = MAX_DATA_BUFFER_SIZE]
                           ELSE m
                 ELSE LET copied == [m EXCEPT
                              !.state.socket_buffer = memcpy(@, ix, chunk.data),
                              !.state.socket_buffer_ix = ix + length,
                              !.io.copies = Append(@, [ix |-> ix, length |-> length])]
                      IN IF chunk.frame_end
                         THEN [distribute_jpeg(copied,
                                   SubSeq(copied.state.socket_buffer, 1,
                                          copied.state.socket_buffer_ix),
                                   failing, wr)
                               EXCEPT !.state.socket_buffer_ix = 0]
                         ELSE copied
    IN IF handled.exit # RUNNING THEN handled
       ELSE IF handled.state.count >= 0
            THEN [handled EXCEPT !.state.count = @ - 1]
            ELSE handled

-----------------------------------------------------------------------------
(* A datagram on the server socket: [from, rc, len, lines], the sender's   *)
(* address, how recvfrom returned ("ok", "EINTR" or another error), the    *)
(* byte count it returned and the config lines the bytes hold.             *)
RECV_OK == "ok"
RECV_EINTR == "EINTR"
RECV_ERROR == "error"

\* recvfrom into socket_buffer followed by socket_buffer[bytes_received] = 0.
\* The terminator of a datagram that fills the buffer falls outside it.
Received(buf, len) ==
    [i \in 1..Len(buf) |-> IF i <= len THEN DGRAM_BYTE
                           ELSE IF i = len + 1 THEN NUL
                           ELSE buf[i]]

server_service_client(m, dgram) ==
    IF dgram.rc = RECV_EINTR THEN m
    ELSE IF dgram.rc = RECV_ERROR THEN Exit(m, EXIT_FAILURE)
    ELSE LET added == add_client(m, dgram.from)
             stored == [added EXCEPT
                            !.state.socket_buffer = Received(@, dgram.len),
                            !.io.oob = (dgram.len >= MAX_DATA_BUFFER_SIZE)]
         IN parse_config_lines(stored, dgram.lines)

-----------------------------------------------------------------------------
(* The control stream (stdin).  stdin_buffer holds symbols: the characters *)
(* of an HTTP request one by one, a config line as one symbol of the       *)
(* table LineText, the line end "\n", and the bytes of a packet length.    *)
(* stdin_buffer is indexed from 1.  A read is [rc, data].                  *)
READ_OK == "ok"
READ_EOF == "eof"
READ_ERROR == "error"

CR == "\r"
LF == "\n"

\* The config lines that travel as one symbol, and what parse_config_line
\* splits them into.
LineText ==
    [t \in {"quality=50", "quality=150", "exposure=snow", "nosuchoption=1",
            "framing=mime", "framing=bogus"} |->
        CASE t = "quality=50" -> [key |-> "quality", value |-> "50"]
          [] t = "quality=150" -> [key |-> "quality", value |-> "150"]
          [] t = "exposure=snow" -> [key |-> "exposure", value |-> "snow"]
          [] t = "nosuchoption=1" -> [key |-> "nosuchoption", value |-> "1"]
          [] t = "framing=mime" -> [key |-> "framing", value |-> "mime"]
          [] t = "framing=bogus" -> [key |-> "framing", value |-> "bogus"]]

\* A line of symbols as key and value; text that is no line of the table
\* has a key that matches no option.  (The streams of the model end every
\* line symbol with LF in the same read, so that no line joins two.)
LineOf(text) ==
    IF text = <<>> THEN EMPTY_LINE
    ELSE IF Len(text) = 1 /\ text[1] \in DOMAIN LineText THEN LineText[text[1]]
    ELSE [key |-> "?", value |-> "on"]

\* strchr over buf[from..to]: the index of the first c, or 0.
strchr(buf, from, to, c) ==
    IF \E i \in from..to : buf[i] = c
    THEN CHOOSE i \in from..to : buf[i] = c /\ \A j \in from..(i - 1) : buf[j] # c
    ELSE 0

\* memcmp(&buf[at - 1], pat, Len(pat)) == 0
memcmp(buf, at, pat) ==
    /\ at + Len(pat) - 1 <= Len(buf)
    /\ \A i \in 1..Len(pat) : buf[at + i - 1] = pat[i]

\* strstr(buf, pat) != NULL for the string buf[1..ix].
strstr(buf, ix, pat) ==
    \E at \in 1..ix : at + Len(pat) - 1 <= ix /\ memcmp(buf, at, pat)

\* memmove(buf, buf + amount, ix)
memmove(buf, amount, ix) ==
    [i \in 1..Len(buf) |-> IF i <= ix THEN buf[i + amount] ELSE buf[i]]

RECURSIVE SplitLines(_)
\* The lines parse_config_lines cuts a string into: one more than it has
\* line ends.
SplitLines(text) ==
    LET line_end == strchr(text, 1, Len(text), LF)
    IN IF line_end = 0 THEN <<LineOf(text)>>
       ELSE <<LineOf(SubSeq(text, 1, line_end - 1))>>
            \o SplitLines(SubSeq(text, line_end + 1, Len(text)))

RECURSIVE stdin_lines_from(_, _)
\* The loop of process_stdin_line_framing from the line that starts at
\* index line; gives the machine and the start of the unfinished line.
stdin_lines_from(m, line) ==
    LET buf == m.state.stdin_buffer
        line_end == strchr(buf, line, m.state.stdin_buffer_ix, LF)
    IN IF line_end = 0 \/ m.exit # RUNNING THEN [m |-> m, line |-> line]
       ELSE LET text == LineOf(SubSeq(buf, line, line_end - 1))
            IN stdin_lines_from(
                   [parse_config_line(m, text, config_context_client_request)
                       EXCEPT !.io.lines = Append(@, text)],
                   line_end + 1)

process_stdin_line_framing(m) ==
    LET r == stdin_lines_from(m, 1)
        amount_processed == r.line - 1
        ix == r.m.state.stdin_buffer_ix - amount_processed
    IN IF amount_processed > 0
       THEN [r.m EXCEPT !.state.stdin_buffer_ix = ix,
                        !.state.stdin_buffer = memmove(@, amount_processed, ix)]
       ELSE r.m

\* from_uint32_be: the length of a packet.  The source reads buf[0], buf[1],
\* buf[2] and buf[4]; the model's buffer is indexed from 1.
from_uint32_be(buf) ==
    ByteVal(buf[1]) * 16777216 + ByteVal(buf[2]) * 65536 + ByteVal(buf[3]) * 256
    + ByteVal(buf[5])

\* The packet length process_stdin_header_framing refuses:
\* MAX_DATA_BUFFER_SIZE - 4 - 1 in the source, 131067, where
\* MAX_DATA_BUFFER_SIZE is 32 times MAX_REQUEST_BUFFER_SIZE.  The sizes of
\* the model are scaled apart from each other, so the limit is taken from
\* twice the size of stdin_buffer: as in the source there are lengths that
\* stdin_buffer cannot hold and that are below the limit.
PACKET_LENGTH_LIMIT == 2 * MAX_REQUEST_BUFFER_SIZE - 4 - 1

\* A string of C: the bytes before the first NUL.
CString(text) ==
    LET nul == strchr(text, 1, Len(text), "<0>")
    IN IF nul = 0 THEN text ELSE SubSeq(text, 1, nul - 1)

\* process_stdin_header_framing that keeps nothing for the next read.
process_stdin_header_framing_no_carry(m) ==
    LET buf == m.state.stdin_buffer
        len == IF m.state.stdin_buffer_ix > 4 THEN from_uint32_be(buf) ELSE 0
        lines == SplitLines(CString(SubSeq(buf, 5, 4 + len)))
    IN IF len >= PACKET_LENGTH_LIMIT THEN Exit(m, EXIT_FAILURE)
       ELSE IF len # 0 /\ m.state.stdin_buffer_ix >= 4 + len
            THEN [parse_config_lines(m, lines) EXCEPT !.io.lines = @ \o lines,
                                                      !.state.stdin_buffer_ix = 0]
       ELSE [m EXCEPT !.state.stdin_buffer_ix = 0]

RECURSIVE header_packets_from(_, _)
\* The while loop of process_stdin_header_framing; len is the variable of
\* that name, which keeps its value when the loop test stops at its first
\* conjunct.
header_packets_from(m, len) ==
    LET ix == m.state.stdin_buffer_ix
        buf == m.state.stdin_buffer
    IN IF ~(ix > 4) \/ m.exit # RUNNING THEN [m |-> m, len |-> len]
       ELSE LET l == from_uint32_be(buf)
            IN IF l # 0 /\ ix >= 4 + l
               THEN LET lines == SplitLines(CString(SubSeq(buf, 5, 4 + l)))
                        parsed == parse_config_lines(m, lines)
                        rest == ix - (4 + l)
                    IN header_packets_from(
                           [parsed EXCEPT !.io.lines = @ \o lines,
                                          !.state.stdin_buffer_ix = rest,
                                          !.state.stdin_buffer = memmove(@, 4 + l, rest)],
                           l)
               ELSE [m |-> m, len |-> l]

process_stdin_header_framing(m) ==
    LET r == header_packets_from(m, 0)
    IN IF r.m.exit = RUNNING /\ r.len >= PACKET_LENGTH_LIMIT
       THEN Exit(r.m, EXIT_FAILURE)
       ELSE r.m

\* write_string of one of the fixed texts: the write is taken to succeed.
write_string(m, str) ==
    [m EXCEPT !.io.writes = Append(@, [mode |-> str, frame |-> <<>>, complete |-> TRUE]),
              !.io.bytes = Append(@, str)]

\* write_mime_header: mime_header and the first boundary.
write_mime_header(m) ==
    [write_string(m, "mime_header") EXCEPT !.io.bytes = Append(@, "mime_boundary")]

END_OF_REQUEST == <<CR, LF, CR, LF>>
GET == <<"G", "E", "T">>
ROOT_PATH == <<"/", " ">>
INDEX_PATH == <<"/", "i", "n", "d", "e", "x", ".", "h", "t", "m", "l", " ">>
VIDEO_PATH == <<"/", "v", "i", "d", "e", "o", " ">>

process_stdin_http_framing(m) ==
    LET m0 == IF m.state.http_ready_for_images
              THEN [m EXCEPT !.state.stdin_buffer_ix = 0] ELSE m
        buf == m0.state.stdin_buffer
        end_of_request == strstr(buf, m0.state.stdin_buffer_ix, END_OF_REQUEST)
    IN IF ~end_of_request THEN m0
       ELSE LET answered ==
                    IF memcmp(buf, 1, GET)
                    THEN LET ok == write_string(m0, "http_ok_response")
                         IN IF memcmp(buf, 5, ROOT_PATH) \/ memcmp(buf, 5, INDEX_PATH)
                            THEN [write_string(ok, "http_index_html_response")
                                     EXCEPT !.state.count = 0]
                            ELSE IF memcmp(buf, 5, VIDEO_PATH)
                                 THEN [write_mime_header(ok)
                                          EXCEPT !.state.http_ready_for_images = TRUE]
                                 ELSE [write_string(ok, "http_404_response")
                                          EXCEPT !.state.count = 0]
                    ELSE [write_string(m0, "http_500_response") EXCEPT !.state.count = 0]
            IN [answered EXCEPT !.state.stdin_buffer_ix = 0]

\* server_service_stdin that takes no notice of what the read returned.
server_service_stdin_ignoring_eof(m, rd) ==
    IF m.state.stdin_buffer_ix >= MAX_REQUEST_BUFFER_SIZE - 1 \/ rd.rc = READ_ERROR
    THEN [m |-> Exit(m, EXIT_FAILURE), ret |-> 0]
    ELSE [m |-> m, ret |-> 1]

\* server_service_stdin: the machine after it and the value it returns.
server_service_stdin(m, rd) ==
    LET ix == m.state.stdin_buffer_ix
    IN IF ix >= MAX_REQUEST_BUFFER_SIZE - 1 THEN [m |-> Exit(m, EXIT_FAILURE), ret |-> 0]
       ELSE IF rd.rc = READ_ERROR THEN [m |-> Exit(m, EXIT_FAILURE), ret |-> -1]
       ELSE IF rd.rc = READ_EOF THEN [m |-> m, ret |-> 0]
       ELSE LET amount_read == Len(rd.data)
                got == [m EXCEPT
                           !.state.stdin_buffer =
                               [i \in 1..Len(@) |->
                                   IF ix < i /\ i <= ix + amount_read THEN rd.data[i - ix]
                                   ELSE @[i]],
                           !.state.stdin_buffer_ix = ix + amount_read]
                framing == m.state.framing
            IN [m |-> IF framing = "header" THEN process_stdin_header_framing(got)
                      ELSE IF framing = "http" THEN process_stdin_http_framing(got)
                      ELSE process_stdin_line_framing(got),
                ret |-> amount_read]

-----------------------------------------------------------------------------
(* main() up to the server's loop.  argv is the command line as a sequence *)
(* of [key, value]; file is the config file as a sequence of lines.  The   *)
(* process takes the server lock (it is the server) and the calls on       *)
(* files, sockets and MMAL that are not modelled succeed.                  *)

Then(m, F(_)) == IF m.exit = RUNNING THEN F(m) ELSE m

\* main's choice of the output from RASPIJPGS_OUTPUT.
open_output(m) ==
    LET name == m.env[RASPIJPGS_OUTPUT]
        named == [m EXCEPT !.state.output_filename = name]
    IN IF name = "-"
       THEN IF m.state.framing = "replace" THEN Exit(named, EXIT_FAILURE)
            ELSE [named EXCEPT !.state.output_fd = "stdout"]
       ELSE IF name # ""
            THEN IF m.state.framing = "replace"
                 THEN [named EXCEPT !.state.output_fd = "none",
                                    !.state.output_tmp_filename = TmpOf(name)]
                 ELSE [named EXCEPT !.state.output_fd = "file"]
            ELSE [named EXCEPT !.state.output_fd = "none", !.state.no_output = TRUE]

write_initial_framing(m) ==
    IF m.state.output_fd # "none" /\ m.state.framing = "mime"
    THEN write_mime_header(m)
    ELSE m

\* server_loop before its while loop.
server_start(m) ==
    Then(apply_parameters(m, config_context_server_start), write_initial_framing)

main(m, argv, file) ==
    LET parsed == parse_args(m, argv)
        loaded == Then(parsed, LAMBDA x : load_config_file(x, file))
        filled == Then(loaded, fillin_defaults)
        opened == Then(filled, open_output)
    IN Then(opened, server_start)

-----------------------------------------------------------------------------
(* The state machine.                                                      *)

\* The same holds of stdin_buffer and stdin_buffer_ix: the parsers read the
\* bytes before stdin_buffer_ix, and a memcmp of process_stdin_http_framing
\* that reaches past them has met the request's line end before.
\* A byte of socket_buffer at or after socket_buffer_ix is dead: every read
\* of the buffer is of bytes before socket_buffer_ix (distribute_jpeg) or of
\* bytes the same handler has just received (parse_config_lines), and a
\* chunk is copied in at socket_buffer_ix.  Dead bytes are kept as DEAD
\* between handlers, so that states differing only in them are one state.
DEAD == "?"

Live(s) ==
    [s EXCEPT !.socket_buffer =
        [i \in 1..Len(@) |-> IF i <= s.socket_buffer_ix THEN @[i] ELSE DEAD],
              !.stdin_buffer =
        [i \in 1..Len(@) |-> IF i <= s.stdin_buffer_ix THEN @[i] ELSE DEAD]]

IoNone ==
    [sends |-> <<>>, writes |-> <<>>, warnx |-> <<>>, frames |-> <<>>, oob |-> FALSE,
     fsops |-> <<>>, bytes |-> <<>>, lines |-> <<>>, help |-> FALSE,
     copies |-> <<>>]

\* static struct raspijpgs_state state = {0}
StateZero ==
    [config_filename |-> NULL,
     count |-> 0,
     socket_buffer |-> [i \in 1..MAX_DATA_BUFFER_SIZE |-> DEAD],
     socket_buffer_ix |-> 0,
     client_addrs |-> [i \in 1..MAX_CLIENTS |-> NO_ADDR],
     no_output |-> FALSE,
     output_fd |-> "none",
     output_filename |-> NULL,
     output_tmp_filename |-> NULL,
     framing |-> NULL,
     http_ready_for_images |-> FALSE,
     stdin_buffer |-> [i \in 1..MAX_REQUEST_BUFFER_SIZE |-> DEAD],
     stdin_buffer_ix |-> 0]

\* Bookkeeping on the chunks taken from the encoder since the last frame
\* end: acc is their bytes in order (cut one byte past the capacity),
\* overflowed says that they exceeded the capacity at a chunk that was not
\* a frame end, warns counts the "Frame too large" warnings (to 2), dgrams
\* says that a datagram was received after the first of them.
EpisodeInit == [acc |-> <<>>, overflowed |-> FALSE, warns |-> 0, dgrams |-> FALSE]

Count(q, x) == Cardinality({i \in DOMAIN q : q[i] = x})

AfterChunk(ep, chunk, m) ==
    LET all == ep.acc \o chunk.data
    IN [acc |-> SubSeq(all, 1, Min(Len(all), MAX_DATA_BUFFER_SIZE + 1)),
        overflowed |-> ep.overflowed
                         \/ (~chunk.frame_end /\ Len(all) > MAX_DATA_BUFFER_SIZE),
        warns |-> Min(2, ep.warns + Count(m.io.warnx, "Frame too large")),
        dgrams |-> ep.dgrams]

NoChunk == [data |-> <<>>, frame_end |-> FALSE]
NoDgram == [from |-> NO_ADDR, rc |-> RECV_EINTR, len |-> 0, lines |-> <<>>]
NoRead == [rc |-> READ_EOF, data |-> <<>>]
EvNone == [kind |-> "none", argv |-> <<>>, file |-> <<>>, chunk |-> NoChunk,
           dgram |-> NoDgram, rd |-> NoRead, failing |-> {}, wr |-> WRITE_OK,
           files |-> <<>>, words |-> <<>>, text |-> <<>>,
           ix0 |-> 0, clients0 |-> StateZero.client_addrs, ep |-> EpisodeInit]

\* Bookkeeping on the run: signalled says that SIGINT or SIGTERM has been
\* delivered; frames counts the frames distributed by handlers that began
\* with a frame limit in force (state.count >= 0); mime_headers counts the
\* top-level multipart headers written to the output (to 2); stdin is what
\* has been read from stdin in http and header framing, in order, cut at
\* the size of stdin_buffer; lines is the lines parsed from stdin in header
\* framing, in order; skipped says that a frame was distributed with an output
\* open and nothing of it was written.
\* files is the content of the output file of the replace framing and of
\* its temporary file, by path, ABSENT for a path that names no file.
ABSENT == [exists |-> FALSE, data |-> <<>>]

File(data) == [exists |-> TRUE, data |-> data]

OUTPUT_FILE == "frame.jpg"

NoFiles == [path \in {OUTPUT_FILE, TmpOf(OUTPUT_FILE)} |-> ABSENT]

\* The files after one call: open creates or truncates, write appends,
\* rename moves the content to the new path.
ApplyOp(files, op) ==
    CASE op.op = "open" -> [files EXCEPT ![op.path] = File(<<>>)]
      [] op.op = "write" -> [files EXCEPT ![op.path] = File(@.data \o op.data)]
      [] op.op = "rename" -> [files EXCEPT ![op.to] = files[op.path], ![op.path] = ABSENT]
      [] OTHER -> files

RECURSIVE Snapshots(_, _)
\* The files before the first call and after each call of ops.
Snapshots(files, ops) ==
    IF ops = <<>> THEN <<files>>
    ELSE <<files>> \o Snapshots(ApplyOp(files, Head(ops)), Tail(ops))

HistInit ==
    [signalled |-> FALSE, frames |-> 0, mime_headers |-> 0, stdin |-> <<>>, skipped |-> FALSE,
     files |-> NoFiles, lines |-> <<>>]

HistAfter(h, count0, m) ==
    [h EXCEPT !.frames = IF count0 >= 0 THEN @ + Len(m.io.frames) ELSE @,
              !.mime_headers =
                  Min(2, @ + Cardinality({k \in DOMAIN m.io.writes :
                                             m.io.writes[k].mode = "mime_header"})),
              !.lines = IF m.state.framing = "header" THEN @ \o m.io.lines ELSE @,
              !.files = LET snaps == Snapshots(@, m.io.fsops) IN snaps[Len(snaps)],
              !.skipped = @ \/ (/\ m.io.frames # <<>>
                                /\ ~m.state.no_output
                                /\ m.io.writes = <<>>
                                /\ m.exit = RUNNING)]

HistRead(h, s, rd) ==
    IF s.framing \in {"http", "header"} /\ rd.rc = READ_OK /\ s.stdin_buffer_ix < MAX_REQUEST_BUFFER_SIZE - 1
    THEN [h EXCEPT !.stdin = SubSeq(@ \o rd.data, 1,
                                    Min(Len(@ \o rd.data), MAX_REQUEST_BUFFER_SIZE))]
    ELSE h

-----------------------------------------------------------------------------
(* A config line as text: a sequence of tokens, each a word, a blank       *)
(* (" " or "\t"), "#" or "=".  parse_config_line works on a copy of the    *)
(* line; a pointer into it is an index, a string is the tokens up to its   *)
(* terminator.                                                             *)
isspace(c) == c \in {" ", "\t"}

RECURSIVE skip_left(_, _)
\* while (*left != 0 && isspace(*left)) left++;
skip_left(str, left) ==
    IF left <= Len(str) /\ isspace(str[left]) THEN skip_left(str, left + 1) ELSE left

RECURSIVE skip_right(_, _, _)
\* while (right >= left && isspace(*right)) right--;
skip_right(str, right, left) ==
    IF right >= left /\ isspace(str[right]) THEN skip_right(str, right - 1, left)
    ELSE right

\* A trim_whitespace that leaves the blanks at the end.
trim_whitespace_left(str) == SubSeq(str, skip_left(str, 1), Len(str))

\* trim_whitespace: the len tokens from left are moved to the start.
trim_whitespace(str) ==
    LET left == skip_left(str, 1)
        right == skip_right(str, Len(str), left)
    IN SubSeq(str, left, right)

RECURSIVE Spelled(_)
\* The C string a sequence of tokens spells.
Spelled(tokens) == IF tokens = <<>> THEN "" ELSE tokens[1] \o Spelled(Tail(tokens))

\* parse_config_line on the text of a line: the comment cut off, the line
\* trimmed, key and value separated, and the option looked up by strcmp.
\* No long option is the empty string, so an empty key matches none.
parse_config_line_text(m, text, context) ==
    LET comment == strchr(text, 1, Len(text), "#")
        str == trim_whitespace(IF comment # 0 THEN SubSeq(text, 1, comment - 1) ELSE text)
        eq == strchr(str, 1, Len(str), "=")
        value == IF eq # 0 THEN Spelled(trim_whitespace(SubSeq(str, eq + 1, Len(str))))
                 ELSE "on"
        key == Spelled(trim_whitespace(IF eq # 0 THEN SubSeq(str, 1, eq - 1) ELSE str))
    IN IF m.exit # RUNNING \/ str = <<>> THEN m
       ELSE IF key = ""
            THEN IF context = config_context_file THEN Exit(m, EXIT_FAILURE) ELSE m
            ELSE parse_config_line(m, [key |-> key, value |-> value], context)

-----------------------------------------------------------------------------
(* The Elixir side: Picam, Picam.Camera and Picam.FakeCamera.  A GenServer  *)
(* takes the messages of its mailbox in the order they arrived and runs    *)
(* one callback per message.  A caller of GenServer.call waits for its     *)
(* reply before it calls again.  A jpg is named by where it came from; the *)
(* frames of the port are numbered in the order the port sends them.       *)

Callers == {"a", "b"}
MaxCalls == 2
MaxFrames == 2
MaxExits == 1

\* The `from` of a call: the caller and the number of its call.
CallIds == Callers \X (1..MaxCalls)
NO_FROM == <<"-", 0>>

Frame(n) == [of |-> "port", seq |-> n]
offline_image == [of |-> "offline_1280_720.jpg", seq |-> 0]
NO_JPG == [of |-> "-", seq |-> 0]

\* No config line.
NO_LINE == [key |-> "", value |-> ""]

Msg(type, from, jpg, message) ==
    [type |-> type, from |-> from, jpg |-> jpg, message |-> message]

\* dispatch(requests, jpg): the replies of the task, oldest request first.
dispatch(requests, jpg) ==
    [i \in 1..Len(requests) |-> [to |-> requests[Len(requests) + 1 - i], jpg |-> jpg]]

\* Task.start(fn -> dispatch(requests, jpg) end): a process of its own.
Task_start(tasks, replies) == IF replies = <<>> THEN tasks ELSE tasks \cup {replies}

\* Picam.Camera.init: the port is spawned, nothing is pending.
Camera_init ==
    [state |-> [requests |-> <<>>, offline |-> FALSE],
     mailbox |-> <<>>, tasks |-> {}, reply |-> <<>>, timer |-> FALSE,
     port |-> "up", alive |-> TRUE]

\* handle_call(:next_frame, from, state), both clauses.
Camera_handle_call(p, from) ==
    IF p.state.offline
    THEN [p EXCEPT !.tasks = Task_start(@, dispatch(p.state.requests, offline_image)),
                   !.reply = <<[to |-> from, jpg |-> offline_image]>>,
                   !.state.requests = <<>>]
    ELSE [p EXCEPT !.state.requests = <<from>> \o @]

\* A handle_info that leaves the pending list as it was.
Camera_handle_info_data_keeping(p, jpg) ==
    [p EXCEPT !.tasks = Task_start(@, dispatch(p.state.requests, jpg)),
              !.state.offline = FALSE]

\* handle_info({_, {:data, jpg}}, state)
Camera_handle_info_data(p, jpg) ==
    [p EXCEPT !.tasks = Task_start(@, dispatch(p.state.requests, jpg)),
              !.state.requests = <<>>,
              !.state.offline = FALSE]

\* handle_info({_, {:exit_status, _}}, state)
Camera_handle_info_exit_status(p) ==
    [p EXCEPT !.timer = TRUE, !.state.offline = TRUE]

\* handle_info(:reconnect_port, state); spawned: whether spawn_port gave a port.
Camera_handle_info_reconnect_port(p, spawned) ==
    IF spawned THEN [p EXCEPT !.port = "up"] ELSE [p EXCEPT !.timer = TRUE]

\* Elixir numbers: an integer, or a float counted in tenths.
TENTHS == 10
Integer(n) == [type |-> "integer", tenths |-> n * TENTHS]
Float(tenths) == [type |-> "float", tenths |-> tenths]

\* :erlang.float/1
erlang_float(rate) == Float(rate.tenths)

\* round/1 of a float that is not negative: halves go up.
round(f) == (f.tenths + TENTHS \div 2) \div TENTHS

\* The texts of the floats: "#{rate}" writes them, String.to_float reads them.
FloatText ==
    [t \in {"0.0", "0.4", "0.5", "1.0", "30.0", "90.0"} |->
        CASE t = "0.0" -> 0 [] t = "0.4" -> 4 [] t = "0.5" -> 5 [] t = "1.0" -> 10
          [] t = "30.0" -> 300 [] t = "90.0" -> 900]

Float_to_string(f) == CHOOSE t \in DOMAIN FloatText : FloatText[t] = f.tenths

String_to_float(t) == Float(FloatText[t])

\* "#{sharpness}": the numeral of an integer.
Interpolated(n) == CHOOSE str \in DOMAIN Numeral : Numeral[str] = n

\* Picam.set_sharpness: the config line for a value it accepts, or no line.
set_sharpness(sharpness) ==
    IF sharpness \in -100..100 THEN [key |-> "sharpness", value |-> Interpolated(sharpness)]
    ELSE NO_LINE

\* Picam.set_fps: the config line it sends for a rate it accepts, or no line.
set_fps(rate) ==
    LET r == IF rate.type = "integer" /\ rate.tenths \in 0..(90 * TENTHS)
             THEN erlang_float(rate) ELSE rate
    IN IF r.type = "float" /\ r.tenths >= 0 /\ r.tenths <= 90 * TENTHS
       THEN [key |-> "fps", value |-> Float_to_string(r)]
       ELSE NO_LINE

\* Picam.set_size for the sizes "640,480" and "1920,1080".
SizeText ==
    [t \in {"640,480", "1920,1080"} |->
        IF t = "640,480" THEN <<640, 480>> ELSE <<1920, 1080>>]

set_size(width, height) ==
    IF width > 0 \/ height > 0
    THEN [key |-> "size",
          value |-> CHOOSE t \in DOMAIN SizeText : SizeText[t] = <<width, height>>]
    ELSE NO_LINE

\* image_data(width, height) of Picam.FakeCamera: one of three files.
image_data(width, height) ==
    [of |-> IF width = 1920 /\ height = 1080 THEN "1920_1080.jpg"
            ELSE IF width = 640 /\ height = 480 THEN "640_480.jpg"
            ELSE "1280_720.jpg",
     seq |-> 0]

\* The process raises: the GenServer exits, its mailbox goes with it.
Raised(p) == [p EXCEPT !.alive = FALSE, !.mailbox = <<>>, !.timer = FALSE]

\* schedule_next_frame: Integer.floor_div(1000, fps) raises ArithmeticError
\* when fps is 0.
schedule_next_frame(p) ==
    IF p.state.fps = 0 THEN Raised(p)
    ELSE [p EXCEPT !.timer = TRUE, !.interval = 1000 \div p.state.fps]

\* Picam.FakeCamera.init
FakeCamera_init ==
    schedule_next_frame(
        [state |-> [jpg |-> image_data(1280, 720), fps |-> 30, requests |-> <<>>],
         mailbox |-> <<>>, tasks |-> {}, reply |-> <<>>, timer |-> FALSE,
         interval |-> 0, alive |-> TRUE])

\* handle_call(:next_frame, from, state)
FakeCamera_handle_call(p, from) ==
    [p EXCEPT !.state.requests = <<from>> \o @]

\* handle_cast({:set, message}, state): "size=", "fps=", any other message.
FakeCamera_handle_cast(p, message) ==
    CASE message.key = "size" ->
            [p EXCEPT !.state.jpg = image_data(SizeText[message.value][1],
                                               SizeText[message.value][2])]
      [] message.key = "fps" ->
            [p EXCEPT !.state.fps = round(String_to_float(message.value))]
      [] OTHER -> p

\* handle_info(:send_frame, state)
FakeCamera_handle_info(p) ==
    LET q == schedule_next_frame(p)
    IN IF ~q.alive THEN q
       ELSE [q EXCEPT !.tasks = Task_start(@, dispatch(p.state.requests, p.state.jpg)),
                      !.state.requests = <<>>]

\* The callers' side of the calls: how many port frames had arrived in the
\* server's mailbox when the call arrived there, whether the call was
\* handled and pending only while the server was online, and the replies
\* the caller got.
NoCall == [made |-> FALSE, arrived |-> 0, online |-> TRUE, replies |-> <<>>]

BeamInit ==
    [camera |-> Camera_init,
     fake |-> FakeCamera_init,
     sent |-> 0, exits |-> 0, handled |-> 0, sets |-> 0,
     calls |-> [c \in CallIds |-> NoCall],
     last |-> [type |-> "-", requests0 |-> <<>>, jpg |-> NO_JPG]]

Waiting(b, pid) ==
    \E c \in CallIds : c[1] = pid /\ b.calls[c].made /\ b.calls[c].replies = <<>>

\* GenServer.reply(from, jpg), and the {:reply, ...} of a callback: the
\* caller gets the message.
Deliver(b, replies) ==
    [b EXCEPT !.calls = [c \in CallIds |->
        IF \E i \in 1..Len(replies) : replies[i].to = c
        THEN [@[c] EXCEPT !.replies =
                 @ \o <<(CHOOSE r \in {replies[i] : i \in 1..Len(replies)} : r.to = c).jpg>>]
        ELSE @[c]]]

InSeq(x, seq) == \E i \in 1..Len(seq) : seq[i] = x

\* Picam.next_frame: GenServer.call(@camera, :next_frame).
NextFrameCall(srv) ==
    /\ beam[srv].alive
    /\ \E c \in CallIds :
          /\ ~beam.calls[c].made
          /\ IF c[2] = 1 THEN TRUE ELSE beam.calls[<<c[1], c[2] - 1>>].made
          /\ ~Waiting(beam, c[1])
          /\ beam' = [beam EXCEPT
                ![srv].mailbox = Append(@, Msg("call", c, NO_JPG, NO_LINE)),
                !.calls[c] = [NoCall EXCEPT !.made = TRUE, !.arrived = beam.sent]]
    /\ UNCHANGED cvars

\* The port delivers a frame of raspijpgs ({:packet, 4}: one message a frame).
PortData ==
    /\ beam.camera.port = "up"
    /\ beam.sent < MaxFrames
    /\ beam' = [beam EXCEPT
          !.camera.mailbox = Append(@, Msg("data", NO_FROM, Frame(beam.sent + 1), NO_LINE)),
          !.sent = @ + 1]
    /\ UNCHANGED cvars

\* raspijpgs exits; the port reports its exit status.
PortExit ==
    /\ beam.camera.port = "up"
    /\ beam.exits < MaxExits
    /\ beam' = [beam EXCEPT
          !.camera.mailbox = Append(@, Msg("exit_status", NO_FROM, NO_JPG, NO_LINE)),
          !.camera.port = "down",
          !.exits = @ + 1]
    /\ UNCHANGED cvars

\* Process.send_after(self(), :reconnect_port, port_restart_interval) fires.
ReconnectTimer ==
    /\ beam.camera.timer
    /\ beam' = [beam EXCEPT
          !.camera.mailbox = Append(@, Msg("reconnect_port", NO_FROM, NO_JPG, NO_LINE)),
          !.camera.timer = FALSE]
    /\ UNCHANGED cvars

\* Picam.Camera takes the next message of its mailbox.
CameraHandle ==
    /\ beam.camera.alive
    /\ beam.camera.mailbox # <<>>
    /\ \E spawned \in BOOLEAN :
          LET msg == Head(beam.camera.mailbox)
              p0 == [beam.camera EXCEPT !.mailbox = Tail(@), !.reply = <<>>]
              p == CASE msg.type = "call" -> Camera_handle_call(p0, msg.from)
                     [] msg.type = "data" -> Camera_handle_info_data(p0, msg.jpg)
                     [] msg.type = "exit_status" -> Camera_handle_info_exit_status(p0)
                     [] msg.type = "reconnect_port" ->
                            Camera_handle_info_reconnect_port(p0, spawned)
              touched == CASE msg.type = "call" /\ p0.state.offline -> {msg.from}
                           [] msg.type = "exit_status" ->
                                  {c \in CallIds : InSeq(c, p0.state.requests)}
                           [] OTHER -> {}
              b == [beam EXCEPT
                      !.camera = p,
                      !.handled = IF msg.type = "data" THEN @ + 1 ELSE @,
                      !.calls = [c \in CallIds |->
                                    IF c \in touched THEN [@[c] EXCEPT !.online = FALSE]
                                    ELSE @[c]],
                      !.last = [type |-> msg.type, requests0 |-> p0.state.requests,
                                jpg |-> msg.jpg]]
          IN /\ msg.type # "reconnect_port" => spawned
             /\ beam' = Deliver(b, p.reply)
    /\ UNCHANGED cvars

\* The rates handed to Picam.set_fps.
MaxSets == 1

FpsRates ==
    {Integer(0), Integer(30), Integer(91), Float(4), Float(5)}

\* Picam.set_fps, Picam.set_size and Picam.set_sharpness with
\* Picam.FakeCamera as the camera: GenServer.cast of the line.
FakeSet ==
    /\ beam.fake.alive
    /\ beam.sets < MaxSets
    /\ \E line \in {set_fps(rate) : rate \in FpsRates}
                   \cup {set_size(640, 480), set_sharpness(0)} :
          /\ line # NO_LINE
          /\ beam' = [beam EXCEPT
                !.fake.mailbox = Append(@, Msg("cast", NO_FROM, NO_JPG, line)),
                !.sets = @ + 1]
    /\ UNCHANGED cvars

\* Process.send_after(self(), :send_frame, interval) fires.
FrameTimer ==
    /\ beam.fake.alive
    /\ beam.fake.timer
    /\ beam.sent < MaxFrames
    /\ beam' = [beam EXCEPT
          !.fake.mailbox = Append(@, Msg("send_frame", NO_FROM, NO_JPG, NO_LINE)),
          !.fake.timer = FALSE,
          !.sent = @ + 1]
    /\ UNCHANGED cvars

\* Picam.FakeCamera takes the next message of its mailbox.
FakeHandle ==
    /\ beam.fake.alive
    /\ beam.fake.mailbox # <<>>
    /\ LET msg == Head(beam.fake.mailbox)
           p0 == [beam.fake EXCEPT !.mailbox = Tail(@), !.reply = <<>>]
           p == CASE msg.type = "call" -> FakeCamera_handle_call(p0, msg.from)
                  [] msg.type = "cast" -> FakeCamera_handle_cast(p0, msg.message)
                  [] msg.type = "send_frame" -> FakeCamera_handle_info(p0)
       IN beam' = [beam EXCEPT
                      !.fake = p,
                      !.last = [type |-> msg.type, requests0 |-> p0.state.requests,
                                jpg |-> p0.state.jpg]]
    /\ UNCHANGED cvars

\* A dispatch task sends its next reply.
TaskReply(srv) ==
    /\ \E t \in beam[srv].tasks :
          beam' = Deliver([beam EXCEPT ![srv].tasks =
                              (@ \ {t}) \cup (IF Len(t) = 1 THEN {} ELSE {Tail(t)})],
                          <<Head(t)>>)
    /\ UNCHANGED cvars

-----------------------------------------------------------------------------
(* The port program with live resizing (picam_camera.c).  It takes its     *)
(* requests from stdin alone, in packets with a 4-byte length, writes its  *)
(* frames to stdout, and restarts the capture pipeline when the size       *)
(* changes.  Its machine is [state, env, camera, io, exit] like the one    *)
(* above.  A byte of a chunk is named by the number of the pipeline that   *)
(* produced it; 0 names a byte of the buffer nothing has written.  The     *)
(* pool buffers are counted where they are: port (held by the encoder),    *)
(* mmal_callback_pipe (one message a buffer) and pool (free).  The MMAL    *)
(* calls succeed.                                                          *)

RASPIJPGS_SIZE == "RASPIJPGS_SIZE"

PicamEnvKeys == {RASPIJPGS_SIZE, RASPIJPGS_SHARPNESS, RASPIJPGS_EXPOSURE}

\* The rows of opts[] that differ in how they are set or applied.
picam_opts == <<
    [long_option |-> "size", env_key |-> RASPIJPGS_SIZE, default_value |-> "320,0",
     set |-> "default_set", apply |-> "size_apply"],
    [long_option |-> "sharpness", env_key |-> RASPIJPGS_SHARPNESS, default_value |-> "0",
     set |-> "default_set", apply |-> "sharpness_apply"],
    [long_option |-> "exposure", env_key |-> RASPIJPGS_EXPOSURE, default_value |-> "auto",
     set |-> "default_set", apply |-> "exposure_apply"],
    [long_option |-> "help", env_key |-> no_env, default_value |-> NULL,
     set |-> "help", apply |-> no_apply] >>

\* state.sensor_info.cameras[0]: the dimensions of the first imager.
max_width == 2592
max_height == 1944

\* The buffers of the encoder's output pool.
PoolSize == 2

PicamIoNone == [frames |-> <<>>, warnx |-> <<>>, stops |-> 0, starts |-> 0]

PicamHardware == [sharpness |-> -1, exposure |-> "hw"]

\* The machine after memset(&state, 0, sizeof(state)).
PicamZero ==
    [state |-> [width |-> 0, height |-> 0,
                socket_buffer |-> [i \in 1..MAX_DATA_BUFFER_SIZE |-> 0],
                socket_buffer_ix |-> 0,
                mmal_callback_pipe |-> <<>>, port |-> 0, pool |-> 0,
                is_enabled |-> FALSE, pipeline |-> 0],
     env |-> [k \in PicamEnvKeys |-> NULL],
     camera |-> PicamHardware,
     io |-> PicamIoNone,
     exit |-> RUNNING]

picam_default_set(v, opt, value, fail_on_error) ==
    IF opt.env_key = no_env THEN v
    ELSE [v EXCEPT !.env[opt.env_key] = value]

\* help prints the usage and exits.
picam_help(v, opt, value, fail_on_error) == Exit(v, EXIT_FAILURE)

\* sscanf(str, "%d,%d", &raw_width, &raw_height) on the size strings of the
\* model: the number of conversions and the values converted.
SizeScan == [s \in {"320,0", "330,0", "640,480", "0,0", "5000,5000", "-16,480"} |->
                CASE s = "320,0" -> <<320, 0>> [] s = "330,0" -> <<330, 0>>
                  [] s = "640,480" -> <<640, 480>> [] s = "0,0" -> <<0, 0>>
                  [] s = "5000,5000" -> <<5000, 5000>> [] s = "-16,480" -> <<-16, 480>>]

sscanf_size(str) ==
    IF str \in DOMAIN SizeScan
    THEN [n |-> 2, raw_width |-> SizeScan[str][1], raw_height |-> SizeScan[str][2]]
    ELSE [n |-> 0, raw_width |-> 0, raw_height |-> 0]

\* x &= ~0xf, for an x that is not negative.
ClearLow4(x) == x - (x % 16)

parse_requested_dimensions(v) ==
    LET scan == sscanf_size(v.env[RASPIJPGS_SIZE])
        defaults == scan.n # 2 \/ (scan.raw_height <= 0 /\ scan.raw_width <= 0)
        w0 == ClearLow4(constrain(0, IF defaults THEN 320 ELSE scan.raw_width, max_width))
        h0 == ClearLow4(constrain(0, IF defaults THEN 0 ELSE scan.raw_height, max_height))
    IN IF h0 = 0 THEN <<w0, ClearLow4((max_height * w0) \div max_width)>>
       ELSE IF w0 = 0 THEN <<ClearLow4((max_width * h0) \div max_height), h0>>
       ELSE <<w0, h0>>

\* stop_all: the port is disabled, the pool and the components are
\* destroyed and the pipe is closed with whatever it holds.
stop_all(v) ==
    [v EXCEPT !.state.is_enabled = FALSE,
              !.state.port = 0,
              !.state.pool = 0,
              !.state.mmal_callback_pipe = <<>>,
              !.io.stops = @ + 1]

RECURSIVE start_all(_)

\* A size_apply that restarts on every request of the control stream.
size_apply_eager(v, opt, fail_on_error) ==
    LET desired == parse_requested_dimensions(v)
    IN IF desired[1] # v.state.width \/ desired[2] # v.state.height \/ ~fail_on_error
       THEN start_all([stop_all(v) EXCEPT !.state.width = desired[1],
                                          !.state.height = desired[2]])
       ELSE v

size_apply(v, opt, fail_on_error) ==
    LET desired == parse_requested_dimensions(v)
    IN IF desired[1] # v.state.width \/ desired[2] # v.state.height
       THEN start_all([stop_all(v) EXCEPT !.state.width = desired[1],
                                          !.state.height = desired[2]])
       ELSE v

picam_rational_param_apply(v, param, opt, fail_on_error) ==
    LET value == strtoul(v.env[opt.env_key])
    IN IF UGreater(value, 100)
       THEN IF fail_on_error THEN Exit(v, EXIT_FAILURE) ELSE v
       ELSE [v EXCEPT !.camera[param] = value.lo]

picam_sharpness_apply(v, opt, fail_on_error) ==
    picam_rational_param_apply(v, "sharpness", opt, fail_on_error)

picam_exposure_apply(v, opt, fail_on_error) ==
    LET str == v.env[opt.env_key]
    IN IF str \in ExposureModes THEN [v EXCEPT !.camera.exposure = str]
       ELSE IF fail_on_error THEN Exit(v, EXIT_FAILURE)
       ELSE v

\* opt->set(opt, value, fail_on_error)
PicamSet(v, opt, value, fail_on_error) ==
    IF opt.set = "help" THEN picam_help(v, opt, value, fail_on_error)
    ELSE picam_default_set(v, opt, value, fail_on_error)

\* if (opt->apply) opt->apply(opt, fail_on_error)
PicamApply(v, opt, fail_on_error) ==
    IF v.exit # RUNNING THEN v
    ELSE CASE opt.apply = "size_apply" -> size_apply(v, opt, fail_on_error)
           [] opt.apply = "sharpness_apply" -> picam_sharpness_apply(v, opt, fail_on_error)
           [] opt.apply = "exposure_apply" -> picam_exposure_apply(v, opt, fail_on_error)
           [] OTHER -> v

RECURSIVE picam_apply_from(_, _, _)
picam_apply_from(v, i, fail_on_error) ==
    IF i > Len(picam_opts) \/ v.exit # RUNNING THEN v
    ELSE picam_apply_from(PicamApply(v, picam_opts[i], fail_on_error), i + 1, fail_on_error)

picam_apply_parameters(v, fail_on_error) == picam_apply_from(v, 1, fail_on_error)

\* start_all: a new pipe, new components at the dimensions requested, a new
\* pool whose buffers all go to the encoder, and every parameter applied.
start_all(v) ==
    LET dimensions == parse_requested_dimensions(v)
        started == [v EXCEPT !.state.mmal_callback_pipe = <<>>,
                             !.state.width = dimensions[1],
                             !.state.height = dimensions[2],
                             !.state.is_enabled = TRUE,
                             !.state.port = PoolSize,
                             !.state.pool = 0,
                             !.state.pipeline = @ + 1,
                             !.camera = PicamHardware,
                             !.io.starts = @ + 1]
    IN picam_apply_parameters(started, TRUE)

RECURSIVE picam_fillin_from(_, _)
picam_fillin_from(v, i) ==
    IF i > Len(picam_opts) THEN v
    ELSE LET opt == picam_opts[i]
         IN picam_fillin_from(IF opt.env_key # no_env /\ opt.default_value # NULL
                              THEN setenv(v, opt.env_key, opt.default_value, FALSE)
                              ELSE v,
                              i + 1)

picam_fillin_defaults(v) == picam_fillin_from(v, 1)

\* The row of opts[] whose long option is key, or 0.
picam_lookup(key) ==
    IF \E i \in 1..Len(picam_opts) : picam_opts[i].long_option = key
    THEN CHOOSE i \in 1..Len(picam_opts) : picam_opts[i].long_option = key
    ELSE 0

\* parse_config_line on the text of a line.
picam_parse_config_line(v, text) ==
    LET comment == strchr(text, 1, Len(text), "#")
        str == trim_whitespace(IF comment # 0 THEN SubSeq(text, 1, comment - 1) ELSE text)
        eq == strchr(str, 1, Len(str), "=")
        value == IF eq # 0 THEN Spelled(trim_whitespace(SubSeq(str, eq + 1, Len(str))))
                 ELSE "on"
        key == Spelled(trim_whitespace(IF eq # 0 THEN SubSeq(str, 1, eq - 1) ELSE str))
        row == picam_lookup(key)
    IN IF v.exit # RUNNING \/ str = <<>> \/ row = 0 THEN v
       ELSE PicamApply(PicamSet(v, picam_opts[row], value, FALSE), picam_opts[row], FALSE)

RECURSIVE picam_parse_config_lines(_, _)
picam_parse_config_lines(v, lines) ==
    IF lines = <<>> THEN v
    ELSE picam_parse_config_lines(picam_parse_config_line(v, Head(lines)), Tail(lines))

\* output_jpeg: the frame goes to stdout behind its length.
picam_output_jpeg(v, buf, wr) ==
    IF wr = WRITE_ERROR THEN Exit(v, EXIT_FAILURE)
    ELSE LET done == [v EXCEPT !.io.frames = Append(@, buf)]
         IN IF wr = WRITE_SHORT THEN Warn(done, "Unexpected truncation of JPEG")
            ELSE done

picam_recycle_jpegencoder_buffer(v) ==
    LET released == [v EXCEPT !.state.pool = @ + 1]
    IN IF ~released.state.is_enabled THEN released
       ELSE IF released.state.pool = 0 THEN Exit(released, EXIT_FAILURE)
       ELSE [released EXCEPT !.state.pool = @ - 1, !.state.port = @ + 1]

\* The event loop reads one message of the pipe and handles its chunk.
picam_jpegencoder_buffer_callback_impl(v, wr) ==
    LET chunk == Head(v.state.mmal_callback_pipe)
        taken == [v EXCEPT !.state.mmal_callback_pipe = Tail(@)]
        ix == v.state.socket_buffer_ix
        length == Len(chunk.data)
        handled ==
            IF ix = 0 /\ chunk.frame_end /\ length <= MAX_DATA_BUFFER_SIZE
            THEN picam_output_jpeg(taken, chunk.data, wr)
            ELSE IF ix + length > MAX_DATA_BUFFER_SIZE
                 THEN IF chunk.frame_end
                      THEN [taken EXCEPT !.state.socket_buffer_ix = 0]
                      ELSE IF ix # MAX_DATA_BUFFER_SIZE
                           THEN [Warn(taken, "Frame too large") EXCEPT
                                     !.state.socket_buffer_ix = MAX_DATA_BUFFER_SIZE]
                           ELSE taken
                 ELSE LET copied == [taken EXCEPT
                              !.state.socket_buffer = memcpy(@, ix, chunk.data),
                              !.state.socket_buffer_ix = ix + length]
                      IN IF chunk.frame_end
                         THEN [picam_output_jpeg(copied,
                                   SubSeq(copied.state.socket_buffer, 1,
                                          copied.state.socket_buffer_ix), wr)
                               EXCEPT !.state.socket_buffer_ix = 0]
                         ELSE copied
    IN IF handled.exit # RUNNING THEN handled
       ELSE picam_recycle_jpegencoder_buffer(handled)

\* The encoder's thread hands a buffer over: through the pipe when it holds
\* something, back to the pool when it is empty.
picam_jpegencoder_buffer_callback(v, chunk) ==
    LET handed == [v EXCEPT !.state.port = @ - 1]
    IN IF Len(chunk.data) # 0
       THEN [handed EXCEPT !.state.mmal_callback_pipe = Append(@, chunk)]
       ELSE picam_recycle_jpegencoder_buffer(handed)

\* server_service_stdin on a read that returns whole packets, each the
\* lines of one request.  A read of 0 bytes ends the loop: server_loop
\* stops the pipeline and main exits.
picam_server_service_stdin(v, rd) ==
    IF rd.rc = READ_ERROR THEN Exit(v, EXIT_FAILURE)
    ELSE IF rd.rc = READ_EOF THEN Exit(stop_all(v), EXIT_SUCCESS)
    ELSE picam_parse_config_lines(v, rd.lines)

\* main up to the loop of server_loop: no arguments, the defaults filled in
\* under what the environment holds, the pipeline started.
picam_main(v, environ) ==
    start_all(picam_fillin_defaults([v EXCEPT !.env = environ]))

PicamEvNone == [kind |-> "none", lines |-> <<>>, rc |-> READ_EOF,
                width0 |-> 0, height0 |-> 0, ix0 |-> 0]

LiveInit == [m |-> PicamZero, pc |-> "main", ev |-> PicamEvNone]

\* What a handler leaves: the bytes of the buffer beyond the index are dead.
LiveAfter(v, e) ==
    [m |-> [v EXCEPT !.state.socket_buffer =
                [i \in 1..Len(@) |-> IF i <= v.state.socket_buffer_ix THEN @[i] ELSE 0]],
     pc |-> IF v.exit = RUNNING THEN "poll" ELSE "done",
     ev |-> e]

LiveMachine == [live.m EXCEPT !.io = PicamIoNone]

LiveEv(kind) ==
    [PicamEvNone EXCEPT !.kind = kind,
                        !.width0 = live.m.state.width,
                        !.height0 = live.m.state.height,
                        !.ix0 = live.m.state.socket_buffer_ix]

MaxPipelines == 2

PicamMain(Environs) ==
    /\ live.pc = "main"
    /\ \E environ \in Environs :
          live' = LiveAfter(picam_main(LiveMachine, environ), LiveEv("main"))
    /\ UNCHANGED <<rvars, beam, mmal>>

\* The encoder fills one of the buffers it holds and calls back.
PicamEncoder(Lengths) ==
    /\ live.pc = "poll"
    /\ live.m.state.is_enabled
    /\ live.m.state.port > 0
    /\ \E length \in Lengths, frame_end \in BOOLEAN :
          LET chunk == [data |-> [i \in 1..length |-> live.m.state.pipeline],
                        frame_end |-> frame_end]
          IN live' = LiveAfter(picam_jpegencoder_buffer_callback(LiveMachine, chunk),
                               LiveEv("encoder"))
    /\ UNCHANGED <<rvars, beam, mmal>>

PicamServiceMmal(Wrs) ==
    /\ live.pc = "poll"
    /\ live.m.state.mmal_callback_pipe # <<>>
    /\ \E wr \in Wrs :
          live' = LiveAfter(picam_jpegencoder_buffer_callback_impl(LiveMachine, wr),
                            LiveEv("mmal"))
    /\ UNCHANGED <<rvars, beam, mmal>>

PicamServiceStdin(Reads) ==
    /\ live.pc = "poll"
    /\ live.m.state.pipeline < MaxPipelines
    /\ \E rd \in Reads :
          live' = LiveAfter(picam_server_service_stdin(LiveMachine, rd),
                            [LiveEv("stdin") EXCEPT !.lines = rd.lines, !.rc = rd.rc])
    /\ UNCHANGED <<rvars, beam, mmal>>

\* poll() times out with nothing to read: "MMAL unresponsive".
PicamPollTimeout ==
    /\ live.pc = "poll"
    /\ live.m.state.mmal_callback_pipe = <<>>
    /\ live' = LiveAfter(Exit(LiveMachine, EXIT_FAILURE), LiveEv("timeout"))
    /\ UNCHANGED <<rvars, beam, mmal>>

-----------------------------------------------------------------------------
(* The buffers of the encoder's output pool in raspijpgs.c, counted where  *)
(* they are: port (held by the encoder), callback (held by the encoder's   *)
(* thread inside jpegencoder_buffer_callback), pipe (one message a buffer, *)
(* with the chunk it carries), loop (held by the event loop inside         *)
(* jpegencoder_buffer_callback_impl) and pool (free).  handed counts the   *)
(* calls of the output callback and released the buffers released.         *)

\* How many times the encoder calls back in a run of the model.
MaxHanded == 4

MmalNone == [port |-> 0, callback |-> 0, pipe |-> <<>>, loop |-> 0, pool |-> 0,
             is_enabled |-> FALSE, thread |-> "idle", handed |-> 0, released |-> 0]

\* start_all: the pool is created and all its buffers are sent to the port.
MmalStarted == [MmalNone EXCEPT !.port = PoolSize, !.is_enabled = TRUE]

\* A callback that recycles the buffer it has written to the pipe.
jpegencoder_buffer_callback_recycling(b, chunk) ==
    LET taken == [b EXCEPT !.port = @ - 1, !.callback = @ + 1, !.handed = @ + 1]
    IN IF Len(chunk.data) # 0
       THEN [taken EXCEPT !.pipe = Append(@, chunk), !.thread = "release"]
       ELSE [taken EXCEPT !.thread = "release"]

\* jpegencoder_buffer_callback up to the write or to the call of
\* recycle_jpegencoder_buffer.
jpegencoder_buffer_callback(b, chunk) ==
    LET taken == [b EXCEPT !.port = @ - 1, !.callback = @ + 1, !.handed = @ + 1]
    IN IF Len(chunk.data) # 0
       THEN [taken EXCEPT !.callback = @ - 1, !.pipe = Append(@, chunk)]
       ELSE [taken EXCEPT !.thread = "release"]

\* mmal_buffer_header_release(buffer), by the thread that holds the buffer.
mmal_buffer_header_release(b, holder) ==
    [b EXCEPT ![holder] = @ - 1, !.pool = @ + 1, !.released = @ + 1]

\* mmal_queue_get and mmal_port_send_buffer of recycle_jpegencoder_buffer.
mmal_port_send_buffer(b) == [b EXCEPT !.pool = @ - 1, !.port = @ + 1]

Init ==
    /\ state = StateZero
    /\ env = [k \in EnvKeys |-> NULL]
    /\ camera = [sharpness |-> -1, exposure |-> "hw", quality |-> -1]
    /\ io = IoNone
    /\ exit_status = RUNNING
    /\ pc = "main"
    /\ revents = {}
    /\ ev = EvNone
    /\ episode = EpisodeInit
    /\ hist = HistInit
    /\ beam = BeamInit
    /\ live = LiveInit
    /\ mmal = MmalNone

\* The machine a handler starts from.
Machine == [state |-> state, env |-> env, camera |-> camera, io |-> IoNone,
            exit |-> exit_status]

CommitState(m, h) ==
    /\ state' = Live(m.state)
    /\ env' = m.env
    /\ camera' = m.camera
    /\ io' = m.io
    /\ exit_status' = m.exit
    /\ hist' = HistAfter(h, state.count, m)
    /\ beam' = beam
    /\ live' = live

\* What a handler leaves.  server_loop starts the pipeline (start_all) when
\* main has come to it.
CommitWith(m, h) ==
    /\ CommitState(m, h)
    /\ mmal' = IF pc = "main" /\ m.exit = RUNNING THEN MmalStarted ELSE mmal

Commit(m) == CommitWith(m, hist)

\* The process starts: main() runs up to the loop of server_loop.
Main(Argvs, Files) ==
    /\ pc = "main"
    /\ \E argv \in Argvs, file \in Files :
          LET m == main(Machine, argv, file)
          IN /\ Commit(m)
             /\ pc' = IF m.exit = RUNNING THEN "poll" ELSE "done"
             /\ ev' = [EvNone EXCEPT !.kind = "main", !.argv = argv, !.file = file]
    /\ UNCHANGED <<revents, episode>>

\* The process starts with a command line given in words.
MainWords(Words) ==
    /\ pc = "main"
    /\ \E words \in Words :
          LET argv == scan_args(words, 1)
              m == main(Machine, argv, <<>>)
          IN /\ Commit(m)
             /\ pc' = IF m.exit = RUNNING THEN "poll" ELSE "done"
             /\ ev' = [EvNone EXCEPT !.kind = "main", !.argv = argv, !.words = words]
    /\ UNCHANGED <<revents, episode>>

Fds == {"mmal", "client"}

\* poll() returns with some descriptors ready.
Poll ==
    /\ pc = "poll"
    /\ state.count # 0
    /\ \E ready \in (SUBSET Fds) \ {{}} :
          /\ revents' = ready
          /\ pc' = IF "mmal" \in ready THEN "mmal" ELSE "client"
    /\ UNCHANGED <<state, env, camera, io, exit_status, ev, episode, hist, beam, live, mmal>>

\* poll() times out: "MMAL unresponsive".
PollTimeout ==
    /\ pc = "poll"
    /\ state.count # 0
    /\ exit_status' = EXIT_FAILURE
    /\ pc' = "done"
    /\ ev' = [EvNone EXCEPT !.kind = "timeout"]
    /\ UNCHANGED <<state, env, camera, io, revents, episode, hist, beam, live, mmal>>

\* The loop ends; server_loop returns and main exits.
LoopExit ==
    /\ pc = "poll"
    /\ state.count = 0
    /\ exit_status' = EXIT_SUCCESS
    /\ pc' = "done"
    /\ ev' = [EvNone EXCEPT !.kind = "exit"]
    /\ UNCHANGED <<state, env, camera, io, revents, episode, hist, beam, live, mmal>>

\* SIGINT or SIGTERM is delivered while the process is in server_loop: in
\* poll(), which then returns EINTR, or between poll() and a handler, or
\* between two handlers.  io and ev stay those of the last handler.
Signal ==
    /\ pc \in {"poll", "mmal", "client", "stdin"}
    /\ ~hist.signalled
    /\ state' = term_sighandler(Machine).state
    /\ hist' = [hist EXCEPT !.signalled = TRUE]
    /\ UNCHANGED <<env, camera, io, exit_status, pc, revents, ev, episode, beam, live, mmal>>

\* server_service_mmal: one chunk is taken from the pipe.
ServiceMmal(Chunks, Failings, WriteResults) ==
    /\ pc = "mmal"
    /\ \E chunk \in Chunks, failing \in Failings, wr \in WriteResults :
          LET m == jpegencoder_buffer_callback_impl(Machine, chunk, failing, wr)
              ep == AfterChunk(episode, chunk, m)
          IN /\ Commit(m)
             /\ ev' = [EvNone EXCEPT !.kind = "mmal", !.chunk = chunk,
                                     !.failing = failing, !.wr = wr,
                                     !.files = Snapshots(hist.files, m.io.fsops),
                                     !.ix0 = state.socket_buffer_ix,
                                     !.clients0 = state.client_addrs, !.ep = ep]
             /\ episode' = IF chunk.frame_end THEN EpisodeInit ELSE ep
             /\ pc' = IF m.exit # RUNNING THEN "done"
                      ELSE IF "client" \in revents THEN "client"
                      ELSE IF "stdin" \in revents THEN "stdin" ELSE "poll"
    /\ revents' = revents \ {"mmal"}

\* server_service_client: one datagram is received.
ServiceClient(Dgrams) ==
    /\ pc = "client"
    /\ \E dgram \in Dgrams :
          LET m == server_service_client(Machine, dgram)
          IN /\ Commit(m)
             /\ ev' = [EvNone EXCEPT !.kind = "client", !.dgram = dgram,
                                     !.ix0 = state.socket_buffer_ix,
                                     !.clients0 = state.client_addrs]
             /\ episode' = IF dgram.rc = RECV_OK /\ episode.acc # <<>>
                           THEN [episode EXCEPT !.dgrams = TRUE] ELSE episode
             /\ pc' = IF m.exit # RUNNING THEN "done"
                      ELSE IF "stdin" \in revents THEN "stdin" ELSE "poll"
    /\ revents' = revents \ {"mmal", "client"}

\* server_service_client for a datagram that holds one line of text and is
\* shorter than socket_buffer.
ServiceClientText(Texts) ==
    /\ pc = "client"
    /\ \E text \in Texts :
          LET dgram == [from |-> NO_ADDR, rc |-> RECV_OK,
                        len |-> Min(Len(text), MAX_DATA_BUFFER_SIZE - 1),
                        lines |-> <<>>]
              m == parse_config_line_text(server_service_client(Machine, dgram), text,
                                          config_context_client_request)
          IN /\ Commit(m)
             /\ ev' = [EvNone EXCEPT !.kind = "client", !.dgram = dgram, !.text = text,
                                     !.ix0 = state.socket_buffer_ix,
                                     !.clients0 = state.client_addrs]
             /\ episode' = IF episode.acc # <<>>
                           THEN [episode EXCEPT !.dgrams = TRUE] ELSE episode
             /\ pc' = IF m.exit # RUNNING THEN "done"
                      ELSE IF "stdin" \in revents THEN "stdin" ELSE "poll"
    /\ revents' = revents \ {"mmal", "client"}

\* poll() returns with stdin among the ready descriptors; stdin is polled
\* when it is not a terminal.
PollStdin ==
    /\ pc = "poll"
    /\ state.count # 0
    /\ \E ready \in SUBSET Fds :
          /\ revents' = ready \cup {"stdin"}
          /\ pc' = IF "mmal" \in ready THEN "mmal"
                   ELSE IF "client" \in ready THEN "client" ELSE "stdin"
    /\ UNCHANGED <<state, env, camera, io, exit_status, ev, episode, hist, beam, live, mmal>>

\* server_service_stdin, and the loop's `state.count = 0` when it returns
\* 0 or less.  A read returns no more than the room in stdin_buffer.
ServiceStdin(Reads) ==
    /\ pc = "stdin"
    /\ \E rd \in Reads :
          /\ Len(rd.data) <= MAX_REQUEST_BUFFER_SIZE - state.stdin_buffer_ix - 1
                 \/ state.stdin_buffer_ix >= MAX_REQUEST_BUFFER_SIZE - 1
          /\ LET r == server_service_stdin(Machine, rd)
                 m == IF r.m.exit = RUNNING /\ r.ret <= 0
                      THEN [r.m EXCEPT !.state.count = 0] ELSE r.m
             IN /\ CommitWith(m, HistRead(hist, state, rd))
                /\ ev' = [EvNone EXCEPT !.kind = "stdin", !.rd = rd,
                                        !.ix0 = state.socket_buffer_ix,
                                        !.clients0 = state.client_addrs]
                /\ pc' = IF m.exit # RUNNING THEN "done" ELSE "poll"
    /\ revents' = {}
    /\ UNCHANGED episode

-----------------------------------------------------------------------------
(* Inputs.                                                                 *)

Arg(key, value) == [key |-> key, value |-> value]

\* The chunks the encoder hands over: 1..MaxChunkLen bytes, with or without
\* the frame end flag (an empty buffer never reaches the pipe).  The bytes
\* of one chunk are all the same; chunks of different bytes make up the
\* frames whose bytes differ.
AllChunks ==
    {[data |-> [i \in 1..n |-> b], frame_end |-> e] :
        n \in 1..MaxChunkLen, b \in Bytes, e \in BOOLEAN}

Dgram(from, len, lines) == [from |-> from, rc |-> RECV_OK, len |-> len, lines |-> lines]

(* Reassembly: every chunk, and datagrams of every length from a socket     *)
(* that is not bound to a name (recvfrom leaves from_addr zeroed).          *)
Next ==
    \/ Main({<<>>, <<Arg("count", "2")>>}, {<<>>})
    \/ Poll
    \/ PollTimeout
    \/ LoopExit
    \/ ServiceMmal(AllChunks, {{}}, {WRITE_OK})
    \/ ServiceClient({Dgram(NO_ADDR, n, <<EMPTY_LINE>>) : n \in 0..MAX_DATA_BUFFER_SIZE})

Spec == Init /\ [][Next]_vars

(* The registry: frames of one chunk, datagrams from each client, sends    *)
(* that fail at any set of slots, output writes that succeed or fail.      *)
NextRegistry ==
    \/ Main({<<Arg("output", "-")>>, <<Arg("output", "-"), Arg("count", "2")>>}, {<<>>})
    \/ Poll
    \/ PollTimeout
    \/ LoopExit
    \/ ServiceMmal({[data |-> <<"a">>, frame_end |-> TRUE]},
                   SUBSET (1..MAX_CLIENTS), {WRITE_OK, WRITE_ERROR})
    \/ ServiceClient({Dgram(c, 0, <<EMPTY_LINE>>) : c \in Clients})

SpecRegistry == Init /\ [][NextRegistry]_vars

(* Configuration: command lines and config files that set the quality,     *)
(* the exposure and the framing, and client requests of one line.          *)
CONFIG_FILE == "raspijpgs.conf"

Opt(key, values) == {<<>>} \cup {<<Arg(key, v)>> : v \in values}

ConfigArgvs ==
    {c \o q \o e \o f :
        c \in Opt("config", {CONFIG_FILE}), q \in Opt("quality", {"50"}),
        e \in Opt("exposure", {"night", "bogus"}), f \in Opt("framing", {"header"})}

ConfigFiles ==
    {q \o e \o f \o u :
        q \in Opt("quality", {"100"}), e \in Opt("exposure", {"sports"}),
        f \in Opt("framing", {"mime"}), u \in Opt("nosuchoption", {"1"})}

ClientLines ==
    {Arg("quality", "1"), Arg("quality", "150"), Arg("exposure", "snow"),
     Arg("exposure", "bogus"), Arg("nosuchoption", "1"), Arg("count", "0")}

NextConfig ==
    \/ Main(ConfigArgvs, ConfigFiles)
    \/ Poll
    \/ PollTimeout
    \/ LoopExit
    \/ ServiceMmal({[data |-> <<"a">>, frame_end |-> TRUE]}, {{}}, {WRITE_OK})
    \/ ServiceClient({Dgram(NO_ADDR, 0, <<l>>) : l \in ClientLines})

SpecConfig == Init /\ [][NextConfig]_vars

(* Shutdown: a signal at any point of the loop, frames of one chunk and    *)
(* datagrams without options.                                              *)
NextShutdown ==
    \/ Main({<<>>, <<Arg("count", "2")>>}, {<<>>})
    \/ Poll
    \/ PollTimeout
    \/ LoopExit
    \/ Signal
    \/ ServiceMmal({[data |-> <<b>>, frame_end |-> TRUE] : b \in Bytes}, {{}}, {WRITE_OK})
    \/ ServiceClient({Dgram(NO_ADDR, 0, <<EMPTY_LINE>>)})

SpecShutdown == Init /\ [][NextShutdown]_vars

(* Ordering: frames of one or more one-byte chunks, two clients that       *)
(* register, and no failing send or write.                                 *)
NextOrder ==
    \/ Main({<<Arg("output", "-")>>, <<Arg("output", "-"), Arg("count", "2")>>}, {<<>>})
    \/ Poll
    \/ PollTimeout
    \/ LoopExit
    \/ ServiceMmal({[data |-> <<b>>, frame_end |-> e] : b \in Bytes, e \in BOOLEAN},
                   {{}}, {WRITE_OK})
    \/ ServiceClient({Dgram(AddrOf[i], 0, <<EMPTY_LINE>>) : i \in 1..2})

SpecOrder == Init /\ [][NextOrder]_vars

(* HTTP: the output is stdout in http framing; requests arrive on stdin    *)
(* whole or in two reads.                                                  *)
Request(method, path) == method \o <<" ">> \o path \o END_OF_REQUEST

HttpReads ==
    {[rc |-> READ_OK, data |-> d] :
        d \in {Request(GET, VIDEO_PATH), GET \o <<" ">> \o VIDEO_PATH, END_OF_REQUEST,
               Request(GET, ROOT_PATH), Request(GET, INDEX_PATH),
               Request(GET, <<"/", "x", " ">>), Request(<<"P", "U", "T">>, ROOT_PATH)}}
    \cup {[rc |-> READ_EOF, data |-> <<>>]}

NextHttp ==
    \/ Main({<<Arg("output", "-"), Arg("framing", "http")>>}, {<<>>})
    \/ Poll
    \/ PollStdin
    \/ PollTimeout
    \/ LoopExit
    \/ ServiceMmal({[data |-> <<b>>, frame_end |-> TRUE] : b \in Bytes}, {{}}, {WRITE_OK})
    \/ ServiceClient({Dgram(NO_ADDR, 0, <<EMPTY_LINE>>)})
    \/ ServiceStdin(HttpReads)

SpecHttp == Init /\ [][NextHttp]_vars

(* The output: stdout in cat or mime framing, clients that ask for another *)
(* framing, frames of every length of one chunk, and writes that succeed,  *)
(* fall short or fail.                                                     *)
NextSink ==
    \/ Main({<<Arg("output", "-")>>, <<Arg("output", "-"), Arg("framing", "mime")>>}, {<<>>})
    \/ Poll
    \/ PollTimeout
    \/ LoopExit
    \/ ServiceMmal({c \in AllChunks : c.frame_end}, {{}},
                   {WRITE_OK, WRITE_SHORT, WRITE_ERROR})
    \/ ServiceClient({Dgram(NO_ADDR, 0, <<l>>) :
                         l \in {Arg("framing", "mime"), Arg("framing", "header"),
                                Arg("count", "0")}})

SpecSink == Init /\ [][NextSink]_vars

(* Replace: the output is a file in replace framing, the writes succeed or *)
(* fail, and clients ask for cat framing and for replace framing again.    *)
NextReplace ==
    \/ Main({<<Arg("output", OUTPUT_FILE), Arg("framing", "replace")>>}, {<<>>})
    \/ Poll
    \/ PollTimeout
    \/ LoopExit
    \/ ServiceMmal({[data |-> <<b>>, frame_end |-> e] : b \in Bytes, e \in BOOLEAN},
                   {{}}, {WRITE_OK, WRITE_ERROR})
    \/ ServiceClient({Dgram(NO_ADDR, 0, <<l>>) :
                         l \in {Arg("framing", "cat"), Arg("framing", "replace"),
                                Arg("count", "0")}})

SpecReplace == Init /\ [][NextReplace]_vars

(* Header framing on stdin: streams of packets, delivered in reads that     *)
(* cut them at any byte.  A packet is its length in four bytes and its      *)
(* payload; the payloads here begin with the byte of their own length, so  *)
(* that the length from_uint32_be computes is the length declared.         *)
Packet(rest) ==
    <<"<0>", "<0>", "<0>", ByteOf(Len(rest) + 1), ByteOf(Len(rest) + 1)>> \o rest

HeaderStreams ==
    {Packet(<<LF, "quality=50", LF>>) \o Packet(<<LF, "exposure=snow">>),
     Packet(<<LF, "nosuchoption=1">>) \o Packet(<<LF, "quality=150">>),
     <<"<0>", "<0>", "<0>", "<0>", "<0>">> \o Packet(<<LF, "quality=50">>),
     <<"<0>", "<0>", "<0>", "<0>">> \o Packet(<<LF, "quality=50">>),
     <<"<0>", "<0>", "<0>", "<30>", " ", "quality=50", LF>>,
     <<"<1>", "<0>", "<0>", "<0>", " ", "quality=50", LF>>}

IsPrefix(p, q) == Len(p) <= Len(q) /\ SubSeq(q, 1, Len(p)) = p

\* The reads that deliver more of a stream after what has been read.
HeaderReads ==
    UNION {{[rc |-> READ_OK, data |-> SubSeq(stream, Len(hist.stdin) + 1, to)] :
               to \in (Len(hist.stdin) + 1)..Len(stream)} :
           stream \in {t \in HeaderStreams : IsPrefix(hist.stdin, t)}}
    \cup {[rc |-> READ_EOF, data |-> <<>>]}

NextHeader ==
    \/ Main({<<Arg("framing", "header")>>}, {<<>>})
    \/ Poll
    \/ PollStdin
    \/ PollTimeout
    \/ LoopExit
    \/ ServiceMmal({[data |-> <<"a">>, frame_end |-> TRUE]}, {{}}, {WRITE_OK})
    \/ ServiceClient({Dgram(NO_ADDR, 0, <<EMPTY_LINE>>)})
    \/ ServiceStdin(HeaderReads)

SpecHeader == Init /\ [][NextHeader]_vars

(* The command line in words: flags without a value, short aliases, the   *)
(* help option, an '=' form, and words that are no option.                 *)
CommandLines ==
    {<<"--ev">>, <<"-ev">>, <<"--ev", "5">>, <<"-ev", "5">>,
     <<"--ev", "--height", "5">>, <<"-ev", "--height", "5">>,
     <<"--ev", "-h", "5">>, <<"-ev", "-h">>,
     <<"--help">>, <<"-h">>, <<"--ev", "--help">>,
     <<"--quality=50">>, <<"--nosuchoption">>, <<"-x">>, <<"5">>, <<"--ev", "-5">>}

NextArgs ==
    \/ MainWords(CommandLines)
    \/ Poll
    \/ PollTimeout
    \/ LoopExit
    \/ ServiceMmal({[data |-> <<b>>, frame_end |-> TRUE] : b \in Bytes}, {{}}, {WRITE_OK})
    \/ ServiceClient({Dgram(NO_ADDR, 0, <<l>>) :
                         l \in {EMPTY_LINE, Arg("help", "on"), Arg("count", "0")}})

SpecArgs == Init /\ [][NextArgs]_vars

(* The values handed to Picam.set_sharpness.  The line of an accepted      *)
(* value reaches parse_config_line as a client request.                    *)
SharpnessValues == {-100, -50, -1, 0, 1, 50, 100, 150}

(* Lines of text from a client: blanks around key and value, comments,    *)
(* lines that are blank or all comment, flags without a value, keys that   *)
(* are near a long option and keys that are empty.                         *)
LineTexts ==
    {<<"quality", "=", "50">>,
     <<" ", "quality", " ", "=", "\t", "50", " ", "#", "x">>,
     <<"quality", "=", "50", "#", "=", "100">>,
     <<"#", "quality", "=", "50">>,
     <<" ", "\t">>,
     <<>>,
     <<"ev">>,
     <<"\t", "ev", " ">>,
     <<"sharpness", "=", "50", "=", "1">>,
     <<"qual", "=", "50">>,
     <<"Quality", "=", "50">>,
     <<"quality", " ", "x", "=", "50">>,
     <<"q", "=", "50">>,
     <<"=", "50">>,
     <<"quality", "=">>}

NextGrammar ==
    \/ Main({<<>>, <<Arg("count", "2")>>}, {<<>>})
    \/ Poll
    \/ PollTimeout
    \/ LoopExit
    \/ ServiceMmal({[data |-> <<"a">>, frame_end |-> TRUE]}, {{}}, {WRITE_OK})
    \/ ServiceClientText(LineTexts)

SpecGrammar == Init /\ [][NextGrammar]_vars

\* Picam.Camera with its callers and its port.
NextCamera ==
    \/ NextFrameCall("camera")
    \/ PortData
    \/ PortExit
    \/ ReconnectTimer
    \/ CameraHandle
    \/ TaskReply("camera")

SpecCamera == Init /\ [][NextCamera]_vars

\* Picam.FakeCamera with its callers and its frame timer.
NextFake ==
    \/ NextFrameCall("fake")
    \/ FakeSet
    \/ FrameTimer
    \/ FakeHandle
    \/ TaskReply("fake")

SpecFake == Init /\ [][NextFake]_vars

NextPicam ==
    \/ Main({<<>>, <<Arg("count", "2")>>}, {<<>>})
    \/ Poll
    \/ PollTimeout
    \/ LoopExit
    \/ ServiceMmal({[data |-> <<"a">>, frame_end |-> TRUE]}, {{}}, {WRITE_OK})
    \/ ServiceClient({Dgram(NO_ADDR, 0, <<set_sharpness(v)>>) :
                         v \in {x \in SharpnessValues : set_sharpness(x) # NO_LINE}})

SpecPicam == Init /\ [][NextPicam]_vars

\* The port program with live resizing, its requests and its chunks.
LiveLines ==
    {<<"size", "=", "640,480">>, <<"size", "=", "330,0">>, <<"size", "=", "320,0">>,
     <<"size", "=", "-16,480">>, <<" ", "size", "=", "big", "#", "x">>,
     <<"exposure", "=", "bogus">>, <<"sharpness", "=", "150">>, <<"help">>}

LiveReads ==
    {[rc |-> READ_OK, lines |-> <<l>>] : l \in LiveLines}
    \cup {[rc |-> READ_OK, lines |-> <<<<"size", "=", "640,480">>, <<"size", "=", "320,0">>>>],
          [rc |-> READ_EOF, lines |-> <<>>],
          [rc |-> READ_ERROR, lines |-> <<>>]}

LiveEnvirons ==
    {[k \in PicamEnvKeys |-> NULL],
     [k \in PicamEnvKeys |-> IF k = RASPIJPGS_SIZE THEN "5000,5000" ELSE NULL],
     [k \in PicamEnvKeys |-> IF k = RASPIJPGS_EXPOSURE THEN "bogus" ELSE NULL]}

NextLive ==
    \/ PicamMain(LiveEnvirons)
    \/ PicamEncoder(0..1)
    \/ PicamServiceMmal({WRITE_OK, WRITE_ERROR})
    \/ PicamServiceStdin(LiveReads)
    \/ PicamPollTimeout

SpecLive == Init /\ [][NextLive]_vars

\* poll() reports the pipe readable when it holds a message.
PollPipe ==
    /\ pc = "poll"
    /\ state.count # 0
    /\ mmal.pipe # <<>>
    /\ revents' = {"mmal"}
    /\ pc' = "mmal"
    /\ UNCHANGED <<state, env, camera, io, exit_status, ev, episode, hist, beam, live, mmal>>

\* jpegencoder_buffer_callback_impl up to the call of
\* recycle_jpegencoder_buffer: the message is read from the pipe and its
\* chunk is handled.
ServiceMmalPipe(Failings, WriteResults) ==
    /\ pc = "mmal"
    /\ mmal.pipe # <<>>
    /\ \E failing \in Failings, wr \in WriteResults :
          LET chunk == Head(mmal.pipe)
              m == jpegencoder_buffer_callback_impl(Machine, chunk, failing, wr)
              ep == AfterChunk(episode, chunk, m)
          IN /\ CommitState(m, hist)
             /\ ev' = [EvNone EXCEPT !.kind = "mmal", !.chunk = chunk,
                                     !.failing = failing, !.wr = wr,
                                     !.ix0 = state.socket_buffer_ix,
                                     !.clients0 = state.client_addrs, !.ep = ep]
             /\ episode' = IF chunk.frame_end THEN EpisodeInit ELSE ep
             /\ pc' = IF m.exit # RUNNING THEN "done" ELSE "release"
    /\ mmal' = [mmal EXCEPT !.pipe = Tail(@), !.loop = @ + 1]
    /\ revents' = {}

\* recycle_jpegencoder_buffer in the event loop: the release.
LoopRelease ==
    /\ pc = "release"
    /\ mmal' = mmal_buffer_header_release(mmal, "loop")
    /\ pc' = IF mmal.is_enabled THEN "send" ELSE "poll"
    /\ UNCHANGED <<state, env, camera, io, exit_status, revents, ev, episode, hist, beam, live>>

\* recycle_jpegencoder_buffer in the event loop: a buffer of the pool is
\* sent to the port, or "Could not send buffers to port".
LoopSend ==
    /\ pc = "send"
    /\ IF mmal.pool = 0
       THEN /\ exit_status' = EXIT_FAILURE
            /\ pc' = "done"
            /\ mmal' = mmal
       ELSE /\ mmal' = mmal_port_send_buffer(mmal)
            /\ pc' = "poll"
            /\ exit_status' = exit_status
    /\ UNCHANGED <<state, env, camera, io, revents, ev, episode, hist, beam, live>>

\* The encoder's thread calls jpegencoder_buffer_callback with a buffer.
EncoderCallback(Chunks) ==
    /\ exit_status = RUNNING
    /\ pc \notin {"main", "done"}
    /\ mmal.thread = "idle"
    /\ mmal.port > 0
    /\ mmal.handed < MaxHanded
    /\ \E chunk \in Chunks : mmal' = jpegencoder_buffer_callback(mmal, chunk)
    /\ UNCHANGED <<rvars, beam, live>>

\* recycle_jpegencoder_buffer in the encoder's thread: the release.
EncoderRelease ==
    /\ exit_status = RUNNING
    /\ mmal.thread = "release"
    /\ mmal' = [mmal_buffer_header_release(mmal, "callback") EXCEPT
                   !.thread = IF mmal.is_enabled THEN "send" ELSE "idle"]
    /\ UNCHANGED <<rvars, beam, live>>

\* recycle_jpegencoder_buffer in the encoder's thread: the replacement.
EncoderSend ==
    /\ exit_status = RUNNING
    /\ mmal.thread = "send"
    /\ IF mmal.pool = 0
       THEN /\ exit_status' = EXIT_FAILURE
            /\ pc' = "done"
            /\ mmal' = [mmal EXCEPT !.thread = "idle"]
       ELSE /\ mmal' = [mmal_port_send_buffer(mmal) EXCEPT !.thread = "idle"]
            /\ UNCHANGED <<exit_status, pc>>
    /\ UNCHANGED <<state, env, camera, io, revents, ev, episode, hist, beam, live>>

HandoffChunks ==
    {[data |-> <<>>, frame_end |-> FALSE], [data |-> <<>>, frame_end |-> TRUE],
     [data |-> <<"a">>, frame_end |-> FALSE], [data |-> <<"b">>, frame_end |-> TRUE]}

NextHandoff ==
    \/ Main({<<>>, <<Arg("count", "2")>>}, {<<>>})
    \/ PollPipe
    \/ PollTimeout
    \/ LoopExit
    \/ ServiceMmalPipe({{}}, {WRITE_OK, WRITE_ERROR})
    \/ LoopRelease
    \/ LoopSend
    \/ EncoderCallback(HandoffChunks)
    \/ EncoderRelease
    \/ EncoderSend

SpecHandoff == Init /\ [][NextHandoff]_vars

(* Options: values outside the documented ranges, framings that are no     *)
(* mode and keys that are no option, on the command line, in the config    *)
(* file, in datagrams and on a control stream of text lines.               *)
OptionArgvs ==
    {c \o a \o b \o f :
        c \in Opt("config", {CONFIG_FILE}), a \in Opt("ev", {"50"}),
        b \in Opt("sharpness", {"150"}), f \in Opt("framing", {"bogus"})}

OptionFiles ==
    {a \o u \o f :
        a \in Opt("ev", {"50"}), u \in Opt("nosuchoption", {"1"}),
        f \in Opt("framing", {"bogus"})}

OptionDgrams ==
    {Dgram(NO_ADDR, 0, lines) :
        lines \in {<<Arg("nosuchoption", "1")>>,
                   <<Arg("nosuchoption", "1"), Arg("quality", "50")>>,
                   <<Arg("framing", "bogus")>>}}

OptionReads ==
    {[rc |-> READ_OK, data |-> d] :
        d \in {<<"nosuchoption=1", LF>>, <<"nosuchoption=1", LF, "exposure=snow", LF>>,
               <<"quality=150", LF>>, <<LF>>}}
    \cup {[rc |-> READ_EOF, data |-> <<>>]}

NextOptions ==
    \/ Main(OptionArgvs, OptionFiles)
    \/ Poll
    \/ PollStdin
    \/ PollTimeout
    \/ LoopExit
    \/ ServiceMmal({[data |-> <<"a">>, frame_end |-> TRUE]}, {{}}, {WRITE_OK})
    \/ ServiceClient(OptionDgrams)
    \/ ServiceStdin(OptionReads)

SpecOptions == Init /\ [][NextOptions]_vars

-----------------------------------------------------------------------------
(* Properties.                                                             *)

Occupied(client_addrs) == {i \in DOMAIN client_addrs : client_addrs[i] # NO_ADDR}
Registered(client_addrs) == {client_addrs[i] : i \in Occupied(client_addrs)}

\* C1 (Spec): the chunks taken since the last frame end, none but the last a
\* frame end, at most MAX_DATA_BUFFER_SIZE bytes in all and with no datagram
\* received between them: no frame is distributed at a chunk that is not the
\* frame end, and at the frame end exactly one frame is, the bytes of the
\* chunks in order, and socket_buffer_ix is 0 again.
C1_ReassemblyCorrect ==
    (/\ ev.kind = "mmal"
     /\ Len(ev.ep.acc) <= MAX_DATA_BUFFER_SIZE
     /\ ~ev.ep.dgrams)
    => IF ev.chunk.frame_end
       THEN io.frames = <<ev.ep.acc>> /\ state.socket_buffer_ix = 0
       ELSE io.frames = <<>>

C1_Witness ==
    /\ ev.kind = "mmal"
    /\ ev.chunk.frame_end
    /\ ev.ix0 > 0
    /\ ~ev.ep.dgrams
    /\ Len(ev.ep.acc) = MAX_DATA_BUFFER_SIZE
    /\ ev.ep.acc[1] # ev.ep.acc[MAX_DATA_BUFFER_SIZE]
    /\ io.frames = <<ev.ep.acc>>
    /\ state.socket_buffer_ix = 0

\* C2 (Spec): once the chunks since the last frame end exceed the capacity at
\* a chunk that is not a frame end, no frame is distributed up to and at the
\* next frame end, and exactly one "Frame too large" warning has been given
\* since the episode began.
C2_OverflowOneWarning ==
    (ev.kind = "mmal" /\ ev.ep.overflowed)
    => (io.frames = <<>> /\ ev.ep.warns = 1)

\* C3 (Spec): a frame end chunk that arrives with bytes buffered and would
\* pass the capacity, in an episode that has not overflowed before:
\* nothing is distributed, socket_buffer_ix is 0, and one warning is given.
C3_TerminalOverflowWarns ==
    (/\ ev.kind = "mmal"
     /\ ev.chunk.frame_end
     /\ ev.ix0 > 0
     /\ ~ev.ep.overflowed
     /\ ev.ix0 + Len(ev.chunk.data) > MAX_DATA_BUFFER_SIZE)
    => (/\ io.frames = <<>>
        /\ state.socket_buffer_ix = 0
        /\ ev.ep.warns = 1)

\* C4 (SpecRegistry): a datagram from an address that is in the registry
\* leaves the registry as it was, and no address holds two slots.
C4_RegisterIdempotent ==
    /\ (/\ ev.kind = "client"
        /\ ev.dgram.rc = RECV_OK
        /\ ev.dgram.from \in Registered(ev.clients0))
       => state.client_addrs = ev.clients0
    /\ \A i, j \in Occupied(state.client_addrs) :
          state.client_addrs[i] = state.client_addrs[j] => i = j

\* A client request of one line whose value is out of range or unknown.
InvalidLine(l) ==
    \/ l.key = "quality" /\ strtol(l.value) \notin 0..100
    \/ l.key = "exposure" /\ l.value \notin ExposureModes

\* C5 (SpecConfig): a client request with an invalid value changes neither
\* the stored value nor the value applied to the camera, and the server goes
\* on running.
C5_InvalidValueIgnored ==
    [][(/\ pc = "client"
        /\ ev'.kind = "client"
        /\ ev'.dgram.rc = RECV_OK
        /\ Len(ev'.dgram.lines) = 1
        /\ InvalidLine(ev'.dgram.lines[1]))
       => (env' = env /\ camera' = camera /\ exit_status' = RUNNING)]_vars

\* The value of an option as the camera is to hold it.
AsApplied(key, value) == IF key = "quality" THEN strtol(value) ELSE value
Has(q, key) == \E i \in DOMAIN q : q[i].key = key
ValueOf(q, key) == q[CHOOSE i \in DOMAIN q : q[i].key = key].value
ValidValue(key, value) ==
    \/ key = "quality" /\ strtol(value) \in 0..100
    \/ key = "exposure" /\ value \in ExposureModes

\* C6 (SpecConfig): for an option with an environment key (quality,
\* exposure) given a valid value B on the command line, the server starts
\* with B stored and applied whatever the config file sets; a client request
\* with a valid value C stores C and applies it in the same handler.
C6_ConfigPrecedence ==
    /\ (ev.kind = "main" /\ exit_status = RUNNING)
       => \A key \in {"quality", "exposure"} :
             (Has(ev.argv, key) /\ ValidValue(key, ValueOf(ev.argv, key)))
             => (/\ env[OptNamed(key).env_key] = ValueOf(ev.argv, key)
                 /\ camera[key] = AsApplied(key, ValueOf(ev.argv, key)))
    /\ (ev.kind = "client" /\ ev.dgram.rc = RECV_OK /\ Len(ev.dgram.lines) = 1)
       => \A key \in {"quality", "exposure"} :
             LET l == ev.dgram.lines[1]
             IN (l.key = key /\ ValidValue(key, l.value))
                => (/\ env[OptNamed(key).env_key] = l.value
                    /\ camera[key] = AsApplied(key, l.value))

C6_Witness ==
    /\ ev.kind = "main"
    /\ exit_status = RUNNING
    /\ Has(ev.argv, "config")
    /\ Has(ev.argv, "quality") /\ Has(ev.file, "quality")
    /\ ValueOf(ev.argv, "quality") # ValueOf(ev.file, "quality")
    /\ env[RASPIJPGS_QUALITY] = ValueOf(ev.argv, "quality")
    /\ camera.quality = strtol(ValueOf(ev.argv, "quality"))

\* C7 (SpecConfig): a framing given on the command line is the framing the
\* server starts with, whatever the config file sets.
C7_FramingPreserved ==
    (ev.kind = "main" /\ exit_status = RUNNING /\ Has(ev.argv, "framing"))
    => state.framing = ValueOf(ev.argv, "framing")

\* C8 (SpecRegistry): after a broadcast in which a send to an address
\* failed, the address is not in the registry.
C8_FailedClientEvicted ==
    ev.kind = "mmal"
    => \A k \in DOMAIN io.sends :
          ~io.sends[k].ok => io.sends[k].addr \notin Registered(state.client_addrs)

\* C9 (SpecRegistry): in a broadcast, whichever sends fail, every slot that
\* was occupied is sent the frame once, every client whose send did not
\* fail keeps its slot, and when the write to the output succeeds the frame
\* is written whole and the server is running.
C9_FailureIsolation ==
    (ev.kind = "mmal" /\ io.frames # <<>>)
    => /\ \A i \in Occupied(ev.clients0) :
             /\ Cardinality({k \in DOMAIN io.sends : io.sends[k].slot = i}) = 1
             /\ \E k \in DOMAIN io.sends :
                   /\ io.sends[k].slot = i
                   /\ io.sends[k].addr = ev.clients0[i]
                   /\ io.sends[k].buf = io.frames[1]
             /\ i \notin ev.failing => state.client_addrs[i] = ev.clients0[i]
       /\ ev.wr = WRITE_OK
             => /\ io.writes = <<[mode |-> state.framing, frame |-> io.frames[1],
                                  complete |-> TRUE]>>
                /\ exit_status = RUNNING

C9_Witness ==
    /\ ev.kind = "mmal"
    /\ io.frames # <<>>
    /\ Occupied(ev.clients0) \cap ev.failing # {}
    /\ Occupied(ev.clients0) \ ev.failing # {}
    /\ \E i \in Occupied(ev.clients0) \ ev.failing :
          \E j \in Occupied(ev.clients0) \cap ev.failing : j < i
    /\ io.writes # <<>>
    /\ exit_status = RUNNING

\* C10 (SpecRegistry): the registry has MAX_CLIENTS slots; a datagram that
\* arrives when all are occupied leaves them as they were and is answered
\* with a warning; a broadcast sends to the occupied slots and to no other
\* address.
C10_RegistryCapacity ==
    /\ DOMAIN state.client_addrs = 1..MAX_CLIENTS
    /\ (/\ ev.kind = "client"
        /\ ev.dgram.rc = RECV_OK
        /\ Occupied(ev.clients0) = 1..MAX_CLIENTS)
       => (/\ state.client_addrs = ev.clients0
           /\ "Reached max number of clients" \in {io.warnx[k] : k \in DOMAIN io.warnx})
    /\ ev.kind = "mmal"
       => \A k \in DOMAIN io.sends : io.sends[k].addr = ev.clients0[io.sends[k].slot]

C10_Witness ==
    /\ ev.kind = "client"
    /\ ev.dgram.rc = RECV_OK
    /\ Occupied(ev.clients0) = 1..MAX_CLIENTS
    /\ Cardinality(Registered(ev.clients0)) = MAX_CLIENTS
    /\ ev.dgram.from \notin Registered(ev.clients0)
    /\ state.client_addrs = ev.clients0

\* C11 (SpecShutdown): once SIGINT or SIGTERM has been delivered, the loop
\* condition is never evaluated again with a count other than 0: the loop
\* ends with the iteration in which the signal arrived.
C11_ShutdownNotLost ==
    (hist.signalled /\ pc = "poll") => state.count = 0

\* C12 (Spec): when the loop ends because of the count, the count option
\* was N > 0 and exactly N frames have been distributed, in however many
\* chunks they came; with the count option -1 the loop never ends so.
C12_FrameCount ==
    ev.kind = "exit"
    => LET N == strtol(env[RASPIJPGS_COUNT])
       IN N > 0 /\ hist.frames = N

\* The range or the enumeration the option table documents for an option.
Documented(key, value) ==
    CASE key = "sharpness" -> strtol(value) \in -100..100
      [] key = "ev" -> strtol(value) \in -10..10
      [] key = "exposure" -> value \in ExposureModes

\* C13 (SpecOptions): when main has run with a value of sharpness, ev or
\* exposure outside the documented range, from the command line or the
\* config file, the process has exited with a failure status.
C13_StartupValidationFatal ==
    (/\ ev.kind = "main"
     /\ \E key \in {"sharpness", "ev", "exposure"} :
           LET value == env[OptNamed(key).env_key]
           IN value # NULL /\ ~Documented(key, value))
    => exit_status = EXIT_FAILURE

\* The lines of the last datagram or read all have keys that are no option.
UnknownOnly(lines) == lines # <<>> /\ \A i \in DOMAIN lines : lines[i].key \notin LongOptions

\* The lines a read of whole lines holds.
ReadLines(data) == IF data = <<>> THEN <<>> ELSE SubSeq(SplitLines(data), 1, Len(SplitLines(data)) - 1)

LineFraming(s) == s.framing \notin {"header", "http"}

\* C14 (SpecOptions): a config file with a line whose key is no option ends
\* the process with a failure status; in a datagram or on the control
\* stream such a line changes nothing (state, environment, camera) and the
\* line after it is processed.
C14_UnknownKey ==
    /\ [](/\ (/\ ev.kind = "main"
               /\ Has(ev.argv, "config")
               /\ \E i \in DOMAIN ev.file : ev.file[i].key \notin LongOptions)
              => exit_status = EXIT_FAILURE
          /\ (ev.kind = "client"
                /\ ev.dgram.lines = <<Arg("nosuchoption", "1"), Arg("quality", "50")>>)
              => (/\ env[RASPIJPGS_QUALITY] = "50"
                  /\ camera.quality = 50
                  /\ exit_status = RUNNING)
          /\ (ev.kind = "stdin"
                /\ ev.rd.data = <<"nosuchoption=1", LF, "exposure=snow", LF>>)
              => (/\ env[RASPIJPGS_EXPOSURE] = "snow"
                  /\ camera.exposure = "snow"
                  /\ exit_status = RUNNING))
    /\ [][(\/ (pc = "client" /\ ev'.kind = "client" /\ UnknownOnly(ev'.dgram.lines))
           \/ (pc = "stdin" /\ ev'.kind = "stdin" /\ LineFraming(state)
                 /\ UnknownOnly(ReadLines(ev'.rd.data))))
          => (/\ state' = state /\ env' = env /\ camera' = camera
              /\ exit_status' = RUNNING)]_vars

C14_Witness ==
    /\ ev.kind = "client"
    /\ ev.dgram.lines = <<Arg("nosuchoption", "1"), Arg("quality", "50")>>
    /\ env[RASPIJPGS_QUALITY] = "50"
    /\ camera.quality = 50
    /\ exit_status = RUNNING

\* The sends of a broadcast of buf to the occupied slots of client_addrs,
\* in slot order.
SendsTo(client_addrs, buf) ==
    LET slots == Occupied(client_addrs)
        Nth(k) == CHOOSE i \in slots : Cardinality({j \in slots : j < i}) = k - 1
    IN [k \in 1..Cardinality(slots) |->
           [slot |-> Nth(k), addr |-> client_addrs[Nth(k)], buf |-> buf, ok |-> TRUE]]

\* C15 (SpecOrder): all that is emitted of a frame is emitted by the handler
\* that takes its frame-end chunk: that handler sends the frame to every
\* client registered at that moment and writes it to the output, and a
\* handler that completes no frame sends and writes nothing; so a frame is
\* out, to all clients and the output, before the next chunk is taken.
C15_FrameOrder ==
    /\ (ev.kind = "mmal" /\ Len(ev.ep.acc) <= MAX_DATA_BUFFER_SIZE /\ ~ev.ep.dgrams)
       => IF ev.chunk.frame_end
          THEN /\ io.sends = SendsTo(ev.clients0, ev.ep.acc)
               /\ io.writes = <<[mode |-> "cat", frame |-> ev.ep.acc, complete |-> TRUE]>>
          ELSE io.sends = <<>> /\ io.writes = <<>>
    /\ ev.kind = "client" => (io.sends = <<>> /\ io.writes = <<>>)

C15_Witness ==
    /\ ev.kind = "mmal"
    /\ ev.chunk.frame_end
    /\ ev.ix0 > 0
    /\ ~ev.ep.dgrams
    /\ ev.ep.acc[1] # ev.ep.acc[Len(ev.ep.acc)]
    /\ Cardinality(Registered(ev.clients0)) = 2
    /\ io.sends = SendsTo(ev.clients0, ev.ep.acc)
    /\ Len(io.writes) = 1

HasBlankLine(input) ==
    \E k \in 1..Len(input) :
        k + 3 <= Len(input) /\ SubSeq(input, k, k + 3) = END_OF_REQUEST

RequestIs(input, method, path) ==
    HasBlankLine(input) /\ IsPrefix(method \o <<" ">> \o path, input)

FrameWrites == {k \in DOMAIN io.writes : io.writes[k].mode \in FramingModes \cup {"multipart"}}

\* C16 (SpecHttp): in http framing a frame is written to the output only
\* after a complete request GET /video has been read from stdin; a frame
\* completed before that is not written, neither then nor later: the
\* handler of a frame writes that frame and no other.
C16_HttpGating ==
    state.framing = "http" =>
        /\ FrameWrites # {} => RequestIs(hist.stdin, GET, VIDEO_PATH)
        /\ (ev.kind = "mmal" /\ ~RequestIs(hist.stdin, GET, VIDEO_PATH)) => io.writes = <<>>
        /\ (ev.kind = "mmal" /\ RequestIs(hist.stdin, GET, VIDEO_PATH))
           => io.writes = <<[mode |-> "multipart", frame |-> ev.ep.acc, complete |-> TRUE]>>
        /\ ev.kind \in {"main", "client", "stdin"} => FrameWrites = {}

\* A frame was skipped before the request, and a frame is written after it.
C16_Witness ==
    /\ state.framing = "http"
    /\ ev.kind = "mmal"
    /\ hist.stdin = Request(GET, VIDEO_PATH)
    /\ io.frames = <<<<"b">>>>
    /\ io.writes = <<[mode |-> "multipart", frame |-> <<"b">>, complete |-> TRUE]>>
    /\ hist.skipped

Wrote(str) == \E k \in DOMAIN io.writes : io.writes[k].mode = str

\* The handler of stdin that read the end of the first request.
RequestCompleted ==
    /\ ev.kind = "stdin"
    /\ state.framing = "http"
    /\ HasBlankLine(hist.stdin)
    /\ ~HasBlankLine(SubSeq(hist.stdin, 1, Len(hist.stdin) - Len(ev.rd.data)))
    /\ Len(hist.stdin) < MAX_REQUEST_BUFFER_SIZE

\* C17 (SpecHttp): when a request is complete, GET / and GET /index.html
\* are answered with the index page and end the session; GET /video writes
\* the multipart header, after which input from stdin changes nothing; any
\* other request is answered with an error response, without the status
\* line of success, and ends the session.
C17_HttpOutcomes ==
    /\ RequestCompleted =>
          IF RequestIs(hist.stdin, GET, ROOT_PATH) \/ RequestIs(hist.stdin, GET, INDEX_PATH)
          THEN Wrote("http_index_html_response") /\ state.count = 0
          ELSE IF RequestIs(hist.stdin, GET, VIDEO_PATH)
          THEN Wrote("mime_header") /\ state.http_ready_for_images /\ state.count # 0
          ELSE /\ Wrote("http_404_response") \/ Wrote("http_500_response")
               /\ ~Wrote("http_ok_response")
               /\ state.count = 0
    /\ (ev.kind = "stdin" /\ ev.rd.rc = READ_OK /\ state.framing = "http"
           /\ ~RequestCompleted /\ HasBlankLine(hist.stdin))
       => (io.writes = <<>> /\ state.http_ready_for_images /\ state.count # 0)

\* C18 (SpecOptions): while the server is in its loop the framing is one of
\* cat, header, mime, http and replace, whatever framing the command line,
\* the config file or a client asked for.
C18_FramingMode ==
    pc \in {"poll", "mmal", "client", "stdin"} => state.framing \in FramingModes

\* C19 (SpecSink): when a part is written in multipart framing, the
\* top-level multipart header has been written to the output exactly once,
\* and the part holds the frame, all of it when the write succeeds.
C19_MultipartWellFormed ==
    \A k \in DOMAIN io.writes :
        (ev.kind = "mmal" /\ io.writes[k].mode = "multipart")
        => /\ hist.mime_headers = 1
           /\ io.writes[k].frame = ev.ep.acc

\* C20 (SpecSink): a frame that does not reach the output whole, because
\* the write failed or fell short, ends the process with a failure status.
C20_WriteAllOrFatal ==
    (ev.kind = "mmal" /\ ev.chunk.frame_end /\ ~state.no_output
       /\ state.framing \in FramingModes /\ ev.wr # WRITE_OK)
    => exit_status = EXIT_FAILURE

\* C21 (SpecReplace): in replace framing, with writes that write all bytes,
\* the content of the output path changes only by the rename of the
\* temporary file onto it, after that file was written and closed, and
\* what the output path then holds is the whole frame of this handler; at
\* every moment the output path is absent or holds a whole frame.
C21_AtomicReplace ==
    (ev.kind = "mmal" /\ state.framing = "replace") =>
        LET out == state.output_filename
            tmp == state.output_tmp_filename
            frame == IF io.frames = <<>> THEN <<>> ELSE io.frames[1]
        IN /\ \A i \in 1..Len(io.fsops) :
                  ev.files[i + 1][out] # ev.files[i][out]
                  => /\ io.frames # <<>>
                     /\ i = 4
                     /\ io.fsops[i] = Rename(tmp, out)
                     /\ io.fsops[i - 1] = FsOp("close", tmp, <<>>)
                     /\ io.fsops[i - 2] = FsOp("write", tmp, frame)
                     /\ io.fsops[i - 3] = FsOp("open", tmp, <<>>)
                     /\ ev.files[i + 1][out] = File(frame)
           /\ \A i \in 1..Len(ev.files) :
                  ev.files[i][out] \in {ev.files[1][out], File(frame)}
           /\ ev.files[1][out] = ABSENT \/ Len(ev.files[1][out].data) > 0

\* A frame of two chunks replaces the frame the output file held.
C21_Witness ==
    /\ ev.kind = "mmal"
    /\ state.framing = "replace"
    /\ ev.ix0 > 0
    /\ Len(io.fsops) = 4
    /\ ev.files[1][OUTPUT_FILE] \notin {ABSENT, File(io.frames[1])}
    /\ hist.files[OUTPUT_FILE] = File(io.frames[1])
    /\ hist.files[TmpOf(OUTPUT_FILE)] = ABSENT

\* What a reader of the header framing decodes: the length from four bytes,
\* highest first, and the payload of that length after them.
BigEndian(b) ==
    (ByteVal(b[1]) * (OCTET ^ 3)) + (ByteVal(b[2]) * (OCTET ^ 2)) + (ByteVal(b[3]) * OCTET)
    + ByteVal(b[4])

Payload(bytes) == SubSeq(bytes, 5, 4 + BigEndian(bytes))

Whole(stream) ==
    server_service_stdin(
        [Machine EXCEPT !.state.stdin_buffer_ix = 0,
                        !.state.stdin_buffer = StateZero.stdin_buffer,
                        !.exit = RUNNING],
        [rc |-> READ_OK, data |-> stream]).m

\* C23 (SpecHeader): however the bytes read so far in header framing were
\* cut into reads, the lines parsed from them and what is left in
\* stdin_buffer are those of one read that delivers them all.
C23_SegmentationIndependent ==
    (state.framing = "header" /\ hist.stdin # <<>>) =>
        LET whole == Whole(hist.stdin)
        IN /\ hist.lines = whole.io.lines
           /\ state.stdin_buffer_ix = whole.state.stdin_buffer_ix
           /\ state.stdin_buffer = Live(whole.state).stdin_buffer
           /\ (ev.kind = "stdin" /\ ev.rd.rc = READ_OK) => exit_status = whole.exit

\* Two packets have been parsed, the second completed by a read of one
\* byte.
C23_Witness ==
    /\ state.framing = "header"
    /\ ev.kind = "stdin"
    /\ Len(ev.rd.data) = 1
    /\ hist.stdin = Packet(<<LF, "quality=50", LF>>) \o Packet(<<LF, "exposure=snow">>)
    /\ io.lines # <<>>
    /\ Len(hist.lines) > Len(io.lines)
    /\ state.stdin_buffer_ix = 0
    /\ camera.quality = 50
    /\ camera.exposure = "snow"

\* C24 (SpecHeader): when the four bytes at the head of stdin_buffer declare
\* a length that is more than stdin_buffer holds, the handler that
\* processes them ends the process with a failure.
C24_OutOfSyncFatal ==
    (/\ ev.kind = "stdin"
     /\ ev.rd.rc = READ_OK
     /\ state.framing = "header"
     /\ hist.lines = <<>>
     /\ Len(hist.stdin) > 4
     /\ BigEndian(hist.stdin) > MAX_REQUEST_BUFFER_SIZE)
    => exit_status = EXIT_FAILURE

\* The handler of stdin whose read returned 0: the end of the input.
EndOfInput ==
    /\ ev.kind = "stdin"
    /\ ev.rd.rc = READ_EOF
    /\ state.stdin_buffer_ix < MAX_REQUEST_BUFFER_SIZE - 1

\* C25 (SpecOptions): when a read of stdin returns 0 the handler leaves the
\* server at the loop test with count 0, and the one step that follows is
\* the end of the loop with the status EXIT_SUCCESS: no chunk, datagram or
\* read is serviced after it.
C25_GracefulExit ==
    /\ [](EndOfInput => (pc = "poll" /\ state.count = 0 /\ exit_status = RUNNING))
    /\ [][EndOfInput => (/\ pc' = "done"
                         /\ exit_status' = EXIT_SUCCESS
                         /\ ev'.kind = "exit"
                         /\ io' = io
                         /\ state' = state)]_vars

\* The input ends after a line of it was applied.
C25_Witness ==
    /\ EndOfInput
    /\ state.count = 0
    /\ camera.exposure = "snow"
    /\ pc = "poll"

\* What the words of a command line mean when a flag without a value is
\* "on" for long options and short aliases alike: a word is the value of
\* the option before it when it is no option itself.
RECURSIVE FlagsOn(_, _)
FlagsOn(words, i) ==
    IF i > Len(words) THEN <<>>
    ELSE LET t == ArgText[words[i]]
             key == IF t.dashes = 2 THEN t.key ELSE opts[ShortRow(t.key)].long_option
         IN IF i < Len(words) /\ ArgText[words[i + 1]].dashes = 0
            THEN <<[key |-> key, value |-> words[i + 1]]>> \o FlagsOn(words, i + 2)
            ELSE <<[key |-> key, value |-> "on"]>> \o FlagsOn(words, i + 1)

\* The command lines of ev and height, by long option or short alias, with
\* a value or without.
FlagWords(words) ==
    /\ words # <<>>
    /\ ArgText[words[1]].dashes > 0
    /\ \A i \in DOMAIN words :
          /\ words[i] \in {"--ev", "-ev", "--height", "5"}
          /\ (i > 1 /\ words[i] = "5") => words[i - 1] # "5"

\* C26 (SpecArgs): a flag without a value, last on the command line or
\* followed by another option, is recorded as "on", whether it was given
\* by its long option or its short alias, and the option after it is
\* parsed as an option.
C26_BooleanFlags ==
    (ev.kind = "main" /\ FlagWords(ev.words))
    => /\ ev.argv = FlagsOn(ev.words, 1)
       /\ exit_status = RUNNING
       /\ \A k \in DOMAIN ev.argv : env[OptNamed(ev.argv[k].key).env_key] = ev.argv[k].value

\* C27 (SpecArgs): --help and -h print the options and end the process with
\* a failure before the server starts, and set no option.
C27_HelpFlag ==
    (ev.kind = "main" /\ ev.words \in {<<"--help">>, <<"-h">>})
    => /\ io.help
       /\ exit_status = EXIT_FAILURE
       /\ pc = "done"
       /\ \A k \in EnvKeys : env[k] = NULL

\* C28 (SpecPicam): a sharpness from -100 to 100 that Picam.set_sharpness
\* sends as a config line is the sharpness the camera has after the
\* server handled the line.
C28_NegativeRange ==
    \A v \in SharpnessValues \cap (-100..100) :
        (ev.kind = "client" /\ ev.dgram.lines = <<set_sharpness(v)>>)
        => (camera.sharpness = v /\ exit_status = RUNNING)

\* A reply to call c that a dispatch task has still to send.
InTask(c, jpg) ==
    \E t \in beam.camera.tasks : InSeq([to |-> c, jpg |-> jpg], t)

Answerable(c) == beam.calls[c].made /\ beam.calls[c].online

\* C29 (SpecCamera): a next_frame call that Picam.Camera handles and holds
\* while it is online gets no reply but the first port frame that arrived
\* after it, and gets it once: it has that reply as soon as the frame is
\* handled and the dispatch task is through.  When a frame has been handled,
\* the pending list is empty and every call that was pending has that frame,
\* or the dispatch task of the frame holds it for the call.
C29_NextFrameDelivery ==
    /\ \A c \in CallIds :
          Answerable(c) =>
             /\ Len(beam.calls[c].replies) <= 1
             /\ \A i \in 1..Len(beam.calls[c].replies) :
                   beam.calls[c].replies[i] = Frame(beam.calls[c].arrived + 1)
             /\ (beam.handled > beam.calls[c].arrived /\ ~\E n \in 1..MaxFrames : InTask(c, Frame(n)))
                   => beam.calls[c].replies = <<Frame(beam.calls[c].arrived + 1)>>
    /\ beam.last.type = "data" =>
          /\ beam.camera.state.requests = <<>>
          /\ \A c \in CallIds :
                InSeq(c, beam.last.requests0) =>
                   IF InTask(c, beam.last.jpg) THEN beam.calls[c].replies = <<>>
                   ELSE beam.calls[c].replies = <<beam.last.jpg>>

\* Two callers whose calls were pending together got the same frame, and a
\* frame had arrived before one of the calls.
C29_Witness ==
    \E c \in CallIds, d \in CallIds :
        /\ c[1] # d[1]
        /\ Answerable(c) /\ Answerable(d)
        /\ beam.calls[c].arrived >= 1
        /\ beam.calls[c].replies = <<Frame(beam.calls[c].arrived + 1)>>
        /\ beam.calls[d].replies = beam.calls[c].replies

\* C30 (SpecFake): with the rates Picam.set_fps accepts, the fake camera
\* process is alive, and its frame timer is running or has just fired.
C30_FakeFrameRate ==
    /\ beam.fake.alive
    /\ \/ beam.fake.timer
       \/ \E i \in 1..Len(beam.fake.mailbox) : beam.fake.mailbox[i].type = "send_frame"

\* C31 (Spec): the chunks taken since the last frame end, at most
\* MAX_DATA_BUFFER_SIZE bytes in all, with a datagram received between
\* them: at the frame end exactly one frame is distributed, the bytes of
\* the chunks in order.
C31_FrameIntegrity ==
    (/\ ev.kind = "mmal"
     /\ ev.chunk.frame_end
     /\ Len(ev.ep.acc) <= MAX_DATA_BUFFER_SIZE
     /\ ev.ep.dgrams)
    => io.frames = <<ev.ep.acc>>

\* C32 (Spec): socket_buffer_ix is from 0 to MAX_DATA_BUFFER_SIZE, and
\* every memcpy of a chunk ends at or before the end of socket_buffer.
C32_AssemblyBounds ==
    /\ state.socket_buffer_ix \in 0..MAX_DATA_BUFFER_SIZE
    /\ \A i \in 1..Len(io.copies) :
          /\ io.copies[i].ix >= 0
          /\ io.copies[i].ix + io.copies[i].length <= MAX_DATA_BUFFER_SIZE

\* A chunk was copied behind buffered bytes and filled the buffer to its
\* last byte.
C32_Witness ==
    /\ ev.kind = "mmal"
    /\ ev.ix0 > 0
    /\ io.copies = <<[ix |-> ev.ix0, length |-> Len(ev.chunk.data)]>>
    /\ ev.ix0 + Len(ev.chunk.data) = MAX_DATA_BUFFER_SIZE
    /\ state.socket_buffer_ix = MAX_DATA_BUFFER_SIZE

\* C33 (SpecHeader): whenever stdin_buffer holds more than four bytes in
\* header framing, from_uint32_be of it is the number its first four bytes
\* spell, highest byte first.
C33_LengthDecoding ==
    (state.framing = "header" /\ state.stdin_buffer_ix > 4)
    => from_uint32_be(state.stdin_buffer) = BigEndian(state.stdin_buffer)

\* C34 (SpecHeader): when a read of stdin has been processed in header
\* framing and the server goes on, no complete packet is left at the head
\* of stdin_buffer: with four bytes or more in it, the bytes after the
\* first four are fewer than the length those four bytes declare.
C34_ParserProgress ==
    (/\ ev.kind = "stdin"
     /\ ev.rd.rc = READ_OK
     /\ state.framing = "header"
     /\ exit_status = RUNNING
     /\ state.stdin_buffer_ix >= 4)
    => state.stdin_buffer_ix < 4 + BigEndian(state.stdin_buffer)

\* The line grammar: the text before the first "#", without the blanks
\* around it; the key is what stands before its first "=" and the value
\* what stands after, each without the blanks around it; "on" is the
\* value when there is no "=".
FirstOf(text, c) ==
    IF \E i \in DOMAIN text : text[i] = c
    THEN CHOOSE i \in DOMAIN text : text[i] = c /\ \A j \in 1..(i - 1) : text[j] # c
    ELSE Len(text) + 1

Stripped(text) ==
    LET ink == {i \in DOMAIN text : ~isspace(text[i])}
    IN IF ink = {} THEN <<>>
       ELSE SubSeq(text, CHOOSE i \in ink : \A j \in ink : i <= j,
                         CHOOSE i \in ink : \A j \in ink : i >= j)

Grammar(text) ==
    LET rest == Stripped(SubSeq(text, 1, FirstOf(text, "#") - 1))
        eq == FirstOf(rest, "=")
    IN [blank |-> rest = <<>>,
        key |-> Spelled(Stripped(SubSeq(rest, 1, eq - 1))),
        value |-> IF eq > Len(rest) THEN "on"
                  ELSE Spelled(Stripped(SubSeq(rest, eq + 1, Len(rest))))]

\* C35 (SpecGrammar): a line of text from a client does what its grammar
\* says: nothing when it is blank or its key is not the long name of an
\* option, and otherwise what the setter and the applier of the option of
\* that name do with the value.
C35_LineGrammar ==
    [][(pc = "client" /\ ev'.kind = "client") =>
          LET g == Grammar(ev'.text)
              received == server_service_client(Machine, ev'.dgram)
              expected == IF g.blank \/ g.key \notin LongOptions THEN received
                          ELSE LET opt == OptNamed(g.key)
                               IN Apply(Set(received, opt, g.value,
                                            config_context_client_request),
                                        opt, config_context_client_request)
          IN /\ camera' = expected.camera
             /\ env' = expected.env
             /\ exit_status' = expected.exit
             /\ io'.warnx = expected.io.warnx]_vars

\* A line with blanks around key and value and a comment has set the
\* quality.
C35_Witness ==
    /\ ev.kind = "client"
    /\ ev.text = <<" ", "quality", " ", "=", "\t", "50", " ", "#", "x">>
    /\ camera.quality = 50
    /\ env[RASPIJPGS_QUALITY] = "50"

\* C36: with live resizing, a request of the control stream that carries an
\* invalid option value never ends the process, neither when it is received
\* nor in a later request (a size change that restarts the pipeline
\* included): after every read of stdin that returned requests, none of
\* them for the usage, the process is still running.
C36_InvalidValueNeverTerminates ==
    (/\ live.ev.kind = "stdin"
     /\ live.ev.rc = READ_OK
     /\ \A i \in 1..Len(live.ev.lines) : live.ev.lines[i] # <<"help">>)
    => live.m.exit = RUNNING

\* C37: with live resizing, a frame written after a restart is made of
\* chunks of the restarted pipeline alone: every byte of every frame a
\* handler writes was produced by the pipeline that is running.
C37_FramesOfRestartedPipeline ==
    \A i \in 1..Len(live.m.io.frames) :
        \A j \in 1..Len(live.m.io.frames[i]) :
            live.m.io.frames[i][j] = live.m.state.pipeline

\* A line that asks for a size: the key is the first thing on it.
IsSizeLine(text) ==
    \E i \in 1..Len(text) : text[i] = "size" /\ \A j \in 1..(i - 1) : isspace(text[j])

\* A read of stdin that returned one request, for a size.
SizeRequested ==
    /\ live.ev.kind = "stdin"
    /\ live.ev.rc = READ_OK
    /\ Len(live.ev.lines) = 1
    /\ IsSizeLine(live.ev.lines[1])

\* C38: with live resizing, a size request whose effective dimensions differ
\* from the current ones stops and starts the pipeline exactly once, one
\* whose effective dimensions are the current ones does neither, and the
\* apply pass of the restart restarts nothing more.
C38_OneRestartPerSizeChange ==
    SizeRequested =>
        LET effective == parse_requested_dimensions(live.m)
        IN IF effective # <<live.ev.width0, live.ev.height0>>
           THEN /\ live.m.io.stops = 1
                /\ live.m.io.starts = 1
                /\ <<live.m.state.width, live.m.state.height>> = effective
           ELSE /\ live.m.io.stops = 0
                /\ live.m.io.starts = 0

C38_Witness ==
    /\ SizeRequested
    /\ <<live.m.state.width, live.m.state.height>> # <<live.ev.width0, live.ev.height0>>
    /\ live.m.io.stops = 1
    /\ live.m.io.starts = 1
    /\ live.m.exit = RUNNING

\* C39: buffer conservation across the thread handoff.  Once the pipeline
\* is started the buffers at the port, in the callback, in the pipe, in the
\* event loop and in the pool total the pool size; every buffer handed to
\* the callback is released once (those handed are those released and those
\* still held by the callback, the pipe or the loop); no message of the
\* pipe carries an empty buffer; the callback releases only empty buffers
\* it holds and the loop only a buffer whose chunk it has handled; the pipe
\* never holds more messages than the pool has buffers; and the pool is not
\* empty when a replacement is about to be taken from it.
C39_BufferConservation ==
    mmal.is_enabled =>
        /\ mmal.port + mmal.callback + Len(mmal.pipe) + mmal.loop + mmal.pool = PoolSize
        /\ mmal.port >= 0 /\ mmal.callback >= 0 /\ mmal.loop >= 0 /\ mmal.pool >= 0
        /\ mmal.handed = mmal.released + mmal.callback + Len(mmal.pipe) + mmal.loop
        /\ \A i \in 1..Len(mmal.pipe) : Len(mmal.pipe[i].data) # 0
        /\ mmal.callback = (IF mmal.thread = "release" THEN 1 ELSE 0)
        /\ mmal.loop = (IF pc = "release" \/ (pc = "done" /\ ev.kind = "mmal") THEN 1 ELSE 0)
        /\ Len(mmal.pipe) <= PoolSize
        /\ (mmal.thread = "send" \/ pc = "send") => mmal.pool > 0

\* Both threads are about to take a replacement, after buffers went both
\* ways: one released by the callback, one by the loop.
C39_Witness ==
    /\ mmal.thread = "send"
    /\ pc = "send"
    /\ mmal.pool > 1
    /\ mmal.released > 1
    /\ ev.kind = "mmal"

\* C40: servicing a client datagram writes nothing outside socket_buffer:
\* for every length recvfrom can return, 0 to MAX_DATA_BUFFER_SIZE, the
\* bytes received and the NUL behind them lie within the
\* MAX_DATA_BUFFER_SIZE bytes of the buffer.
C40_DatagramBounds ==
    (ev.kind = "client" /\ ev.dgram.rc = RECV_OK)
    => (/\ ev.dgram.len + 1 <= Len(state.socket_buffer)
        /\ ~io.oob)

=============================================================================
